---- MODULE Spec2Model ----
(***************************************************************************)
(* Balance reconciliation and amount normalisation of the bank statement   *)
(* analysis scripts (analyze_kontoauszuege_v2/v6/v7/v8.py).                *)
(*                                                                         *)
(* Python strings are sequences of tokens.  A token is one character,      *)
(* except "EUR", which stands for the three letters E, U, R in a row: the  *)
(* letters E, U and R occur in the modelled inputs only inside that        *)
(* marker.  "x" stands for a letter that has no meaning in a number.       *)
(*                                                                         *)
(* A decimal.Decimal is the record [m, s] with value m * 10^(-s), kept     *)
(* normalised (no trailing zero in the fraction), so that equality of      *)
(* records is Python's numeric equality of Decimals.                       *)
(***************************************************************************)
EXTENDS Integers, Sequences, FiniteSets, TLC

VARIABLES inp, out

vars == <<inp, out>>

(***************************************************************************)
(* Bounds of the model.                                                    *)
(***************************************************************************)
MaxStrLen == 4      \* longest arbitrary token string given to the normaliser
MaxIntDigits == 7   \* most integer digits of a generated amount
MaxFracDigits == 4  \* most digits after the '.' of a generated one-dot string
MaxCents == 8       \* the audited amounts run from -MaxCents to MaxCents cents

(***************************************************************************)
(* Python str methods, on token sequences.                                 *)
(***************************************************************************)
Digit == {"0", "1", "2", "3", "4", "5", "6", "7", "8", "9"}

DigitVal == ("0" :> 0) @@ ("1" :> 1) @@ ("2" :> 2) @@ ("3" :> 3) @@ ("4" :> 4)
            @@ ("5" :> 5) @@ ("6" :> 6) @@ ("7" :> 7) @@ ("8" :> 8) @@ ("9" :> 9)

DigitChar == <<"0", "1", "2", "3", "4", "5", "6", "7", "8", "9">>

RECURSIVE lstrip(_)
lstrip(s) == IF s # <<>> /\ Head(s) = " " THEN lstrip(Tail(s)) ELSE s

RECURSIVE rstrip(_)
rstrip(s) == IF s # <<>> /\ s[Len(s)] = " " THEN rstrip(SubSeq(s, 1, Len(s) - 1)) ELSE s

strip(s) == rstrip(lstrip(s))

\* s.replace(old, new) for a one-token old; new is a token sequence.
RECURSIVE replace(_, _, _)
replace(s, old, new) ==
    IF s = <<>> THEN <<>>
    ELSE (IF Head(s) = old THEN new ELSE <<Head(s)>>) \o replace(Tail(s), old, new)

count(s, c) == Cardinality({i \in DOMAIN s : s[i] = c})

\* s.index(c): the first position of c (1-based here); c occurs in s.
index(s, c) == CHOOSE i \in DOMAIN s : s[i] = c /\ \A j \in 1..(i - 1) : s[j] # c

(***************************************************************************)
(* decimal.Decimal.                                                        *)
(***************************************************************************)
RECURSIVE DecNorm(_, _)
DecNorm(m, s) ==
    IF m = 0 THEN [m |-> 0, s |-> 0]
    ELSE IF s > 0 /\ m % 10 = 0 THEN DecNorm(m \div 10, s - 1)
    ELSE [m |-> m, s |-> s]

Zero == [m |-> 0, s |-> 0]

Abs(n) == IF n < 0 THEN -n ELSE n

Max(a, b) == IF a < b THEN b ELSE a

RECURSIVE Pow10(_)
Pow10(n) == IF n = 0 THEN 1 ELSE 10 * Pow10(n - 1)

\* Decimal addition, subtraction, abs and < are exact at the magnitudes of
\* the model (far below the 28 digits of the default context).
DecAdd(a, b) ==
    LET s == Max(a.s, b.s)
    IN  DecNorm(a.m * Pow10(s - a.s) + b.m * Pow10(s - b.s), s)

DecNeg(a) == [a EXCEPT !.m = -a.m]
DecSub(a, b) == DecAdd(a, DecNeg(b))
DecAbs(a) == [a EXCEPT !.m = Abs(a.m)]
DecLt(a, b) == DecSub(a, b).m < 0

Cent == [m |-> 1, s |-> 2]          \* Decimal('0.01')

Ok(d) == [k |-> "dec", v |-> d]
Raise(e) == [k |-> "raise", exc |-> e]

RECURSIVE DigitsVal(_)
DigitsVal(s) ==
    IF s = <<>> THEN 0
    ELSE 10 * DigitsVal(SubSeq(s, 1, Len(s) - 1)) + DigitVal[s[Len(s)]]

AllDigits(s) == \A i \in DOMAIN s : s[i] \in Digit

\* Decimal(text): surrounding whitespace ignored, an optional sign, digits with
\* at most one '.', at least one digit; anything else raises InvalidOperation.
\* (The tokens of the model hold no exponent letter, underscore, or the words
\* NaN and Infinity.)
Decimal(text) ==
    LET t == strip(text)
        signed == t # <<>> /\ Head(t) \in {"-", "+"}
        body == IF signed THEN Tail(t) ELSE t
        sgn == IF signed /\ Head(t) = "-" THEN -1 ELSE 1
        ndots == count(body, ".")
        dot == IF ndots = 1 THEN index(body, ".") ELSE Len(body) + 1
        intpart == SubSeq(body, 1, dot - 1)
        fracpart == SubSeq(body, dot + 1, Len(body))
    IN  IF ndots <= 1 /\ AllDigits(intpart) /\ AllDigits(fracpart)
           /\ Len(intpart) + Len(fracpart) > 0
        THEN Ok(DecNorm(sgn * DigitsVal(intpart \o fracpart), Len(fracpart)))
        ELSE Raise("InvalidOperation")

(***************************************************************************)
(* Python floats: IEEE 754 binary64, round to nearest, ties to even.       *)
(* A float is [sgn, man, exp] with value sgn * man * 2^exp, where man is a *)
(* natural number of exactly 53 bits (sgn = 0 for zero).  The mantissa     *)
(* does not fit TLC's integers: naturals are sequences of 15-bit limbs,    *)
(* least significant first, without leading zero limbs.                    *)
(***************************************************************************)
Base == 32768
LimbBits == 15
MantBits == 53

RECURSIVE Pow2(_)
Pow2(n) == IF n = 0 THEN 1 ELSE 2 * Pow2(n - 1)

RECURSIVE BTrim(_)
BTrim(x) == IF x # <<>> /\ x[Len(x)] = 0 THEN BTrim(SubSeq(x, 1, Len(x) - 1)) ELSE x

RECURSIVE BFromNat(_)
BFromNat(n) == IF n = 0 THEN <<>> ELSE <<n % Base>> \o BFromNat(n \div Base)

\* x * k + c, for k <= Base
RECURSIVE BMulSmall(_, _, _)
BMulSmall(x, k, c) ==
    IF x = <<>> THEN BFromNat(c)
    ELSE LET p == Head(x) * k + c
         IN  <<p % Base>> \o BMulSmall(Tail(x), k, p \div Base)

\* floor(x / d) (not trimmed) and x mod d, for d <= Base
RECURSIVE BDivSmall(_, _)
BDivSmall(x, d) ==
    IF x = <<>> THEN [q |-> <<>>, r |-> 0]
    ELSE LET hi == BDivSmall(Tail(x), d)
             cur == hi.r * Base + Head(x)
         IN  [q |-> <<cur \div d>> \o hi.q, r |-> cur % d]

RECURSIVE BAdd(_, _, _)
BAdd(x, y, c) ==
    IF x = <<>> /\ y = <<>> THEN BFromNat(c)
    ELSE LET a == IF x = <<>> THEN 0 ELSE Head(x)
             b == IF y = <<>> THEN 0 ELSE Head(y)
             t == a + b + c
         IN  <<t % Base>> \o BAdd(IF x = <<>> THEN <<>> ELSE Tail(x),
                                  IF y = <<>> THEN <<>> ELSE Tail(y), t \div Base)

\* x - y - c for x >= y + c (not trimmed)
RECURSIVE BSub(_, _, _)
BSub(x, y, c) ==
    IF x = <<>> THEN <<>>
    ELSE LET b == IF y = <<>> THEN 0 ELSE Head(y)
             t == Head(x) - b - c
         IN  <<t % Base>> \o BSub(Tail(x), IF y = <<>> THEN <<>> ELSE Tail(y),
                                  IF t < 0 THEN 1 ELSE 0)

\* -1, 0, 1 as x <, =, > y (both trimmed)
RECURSIVE BCmp(_, _)
BCmp(x, y) ==
    IF Len(x) # Len(y) THEN (IF Len(x) < Len(y) THEN -1 ELSE 1)
    ELSE IF x = <<>> THEN 0
    ELSE IF x[Len(x)] # y[Len(y)] THEN (IF x[Len(x)] < y[Len(y)] THEN -1 ELSE 1)
    ELSE BCmp(SubSeq(x, 1, Len(x) - 1), SubSeq(y, 1, Len(y) - 1))

RECURSIVE NatBitLen(_)
NatBitLen(n) == IF n = 0 THEN 0 ELSE 1 + NatBitLen(n \div 2)

BBitLen(x) == IF x = <<>> THEN 0 ELSE LimbBits * (Len(x) - 1) + NatBitLen(x[Len(x)])

BShl(x, n) ==
    IF x = <<>> THEN <<>>
    ELSE [i \in 1..(n \div LimbBits) |-> 0] \o BMulSmall(x, Pow2(n % LimbBits), 0)

\* floor(x / 2^n)
BShr(x, n) ==
    BTrim(BDivSmall(SubSeq(x, (n \div LimbBits) + 1, Len(x)), Pow2(n % LimbBits)).q)

\* x / 2^n rounded to the nearest natural, ties to even; sticky says that x
\* itself is the floor of a number that is not a natural.
BRoundShr(x, n, sticky) ==
    LET q == BShr(x, n)
        rem == BTrim(BSub(x, BShl(q, n), 0))
        half == BCmp(BShl(rem, 1), BShl(<<1>>, n))
        odd == q # <<>> /\ q[1] % 2 = 1
        up == half > 0 \/ (half = 0 /\ (sticky \/ odd))
    IN  IF up THEN BAdd(q, <<1>>, 0) ELSE q

FloatZero == [sgn |-> 0, man |-> <<>>, exp |-> 0]

\* The float nearest to sgn * n * 2^e (n a natural, truncated if sticky).
RoundToFloat(sgn, n, e, sticky) ==
    LET len == BBitLen(n)
    IN  IF n = <<>> THEN FloatZero
        ELSE IF len <= MantBits
        THEN [sgn |-> sgn, man |-> BShl(n, MantBits - len), exp |-> e - (MantBits - len)]
        ELSE LET r == BRoundShr(n, len - MantBits, sticky)
             IN  IF BBitLen(r) > MantBits
                 THEN [sgn |-> sgn, man |-> BShr(r, 1), exp |-> e + (len - MantBits) + 1]
                 ELSE [sgn |-> sgn, man |-> r, exp |-> e + (len - MantBits)]

\* floor(x / 10^s) and whether anything was cut off
RECURSIVE BDivPow10(_, _, _)
BDivPow10(x, s, sticky) ==
    IF s = 0 THEN [q |-> x, sticky |-> sticky]
    ELSE LET d == BDivSmall(x, 10)
         IN  BDivPow10(BTrim(d.q), s - 1, sticky \/ d.r # 0)

GuardBits == 90

\* float(Decimal) and json.loads of a number: the nearest double.
float(d) ==
    IF d.m = 0 THEN FloatZero
    ELSE LET q == BDivPow10(BShl(BFromNat(Abs(d.m)), GuardBits), d.s, FALSE)
         IN  RoundToFloat(IF d.m < 0 THEN -1 ELSE 1, q.q, -GuardBits, q.sticky)

\* x - y
FloatSub(x, y) ==
    IF y.sgn = 0 THEN x
    ELSE IF x.sgn = 0 THEN [y EXCEPT !.sgn = -y.sgn]
    ELSE LET e == IF x.exp < y.exp THEN x.exp ELSE y.exp
             a == BShl(x.man, x.exp - e)
             b == BShl(y.man, y.exp - e)
             c == BCmp(a, b)
         IN  IF x.sgn # y.sgn THEN RoundToFloat(x.sgn, BAdd(a, b, 0), e, FALSE)
             ELSE IF c = 0 THEN FloatZero
             ELSE IF c > 0 THEN RoundToFloat(x.sgn, BTrim(BSub(a, b, 0)), e, FALSE)
             ELSE RoundToFloat(-x.sgn, BTrim(BSub(b, a, 0)), e, FALSE)

FloatAbs(x) == IF x.sgn = 0 THEN x ELSE [x EXCEPT !.sgn = 1]

\* x < y
FloatLt(x, y) ==
    LET mag == IF x.exp # y.exp THEN (IF x.exp < y.exp THEN -1 ELSE 1)
               ELSE BCmp(x.man, y.man)       \* |x| against |y|, both not zero
    IN  IF x.sgn # y.sgn THEN x.sgn < y.sgn
        ELSE IF x.sgn = 0 THEN FALSE
        ELSE IF x.sgn = 1 THEN mag < 0
        ELSE mag > 0

(***************************************************************************)
(* JSON values as json.loads returns them, and Python's str() of them.     *)
(***************************************************************************)
JStr(s) == [t |-> "str", s |-> s]
JNum(d) == [t |-> "num", d |-> d]      \* int or float; d is the number written
JBool(b) == [t |-> "bool", b |-> b]
JNull == [t |-> "null"]
JDict(f) == [t |-> "dict", f |-> f]    \* f: a function from the keys present
JList(l) == [t |-> "list", l |-> l]

\* d.get(key, default)
get(d, key, default) == IF key \in DOMAIN d.f THEN d.f[key] ELSE default

\* bool(x), as in "if x:"
Truthy(x) ==
    CASE x.t = "str" -> x.s # <<>>
      [] x.t = "num" -> x.d.m # 0
      [] x.t = "bool" -> x.b
      [] x.t = "null" -> FALSE
      [] x.t = "dict" -> DOMAIN x.f # {}
      [] x.t = "list" -> x.l # <<>>

RECURSIVE NatDigits(_)
NatDigits(n) ==
    IF n < 10 THEN <<DigitChar[n + 1]>>
    ELSE NatDigits(n \div 10) \o <<DigitChar[(n % 10) + 1]>>

RECURSIVE ZeroPad(_, _)
ZeroPad(s, n) == IF Len(s) >= n THEN s ELSE ZeroPad(<<"0">> \o s, n)

\* str() of a number: sign, integer digits, and the fraction after a '.'.
NumStr(d) ==
    LET a == Abs(d.m)
        p == Pow10(d.s)
    IN  (IF d.m < 0 THEN <<"-">> ELSE <<>>)
        \o NatDigits(a \div p)
        \o (IF d.s = 0 THEN <<>> ELSE <<".">> \o ZeroPad(NatDigits(a % p), d.s))

\* str(True) = 'True', str(None) = 'None': letters only.  The text of a dict or
\* a list starts with a bracket, which no number holds: "x" stands for it.
str(x) ==
    CASE x.t = "str" -> x.s
      [] x.t = "num" -> NumStr(x.d)
      [] x.t = "bool" -> <<"x", "x", "x", "x">>
      [] x.t = "null" -> <<"x", "x", "x", "x">>
      [] x.t \in {"dict", "list"} -> <<"x">>

(***************************************************************************)
(* parse_german_amount, versions 8 (= 7), 6 and 2.                         *)
(***************************************************************************)
\* isinstance(x, (int, float)): bool is a subclass of int.
IsIntOrFloat(x) == x.t \in {"num", "bool"}

\* A '.' before the ',' taken for the English form: the ',' is dropped.
DetectFormat_CommaDropped(raw) ==
    LET s == replace(replace(strip(replace(raw, "EUR", <<>>)), "+", <<>>), " ", <<>>)
    IN  IF count(s, ",") = 1 /\ count(s, ".") = 1
        THEN replace(s, ",", <<>>)
        ELSE replace(replace(s, ".", <<>>), ",", <<".">>)

\* Three digits after a single '.' kept as decimals.
DetectFormat_DotKept(raw) ==
    LET s == replace(replace(strip(replace(raw, "EUR", <<>>)), "+", <<>>), " ", <<>>)
    IN  IF count(s, ",") >= 1 THEN replace(replace(s, ".", <<>>), ",", <<".">>) ELSE s

\* The text after the format detection of version 8, lines 28-68.
DetectFormat(raw) ==
    LET s == replace(replace(strip(replace(raw, "EUR", <<>>)), "+", <<>>), " ", <<>>)
        num_dots == count(s, ".")
        num_commas == count(s, ",")
    IN  IF num_commas = 1 /\ num_dots <= 1
        THEN IF num_dots = 1
             THEN IF index(s, ".") < index(s, ",")
                  THEN replace(replace(s, ".", <<>>), ",", <<".">>)
                  ELSE replace(s, ",", <<>>)
             ELSE replace(s, ",", <<".">>)
        ELSE IF num_dots = 1 /\ num_commas = 0
        THEN LET after == Len(s) - index(s, ".")      \* len(parts[1])
             IN  IF after = 2 THEN s
                 ELSE IF after = 3 THEN replace(s, ".", <<>>)
                 ELSE s
        ELSE IF num_dots > 1
        THEN replace(replace(s, ".", <<>>), ",", <<".">>)
        ELSE s

\* try: return Decimal(s)  except: warning, return Decimal('0')
DecimalOrZero(s) ==
    LET r == Decimal(s) IN IF r.k = "raise" THEN Ok(Zero) ELSE r

parse_german_amount(amount_str) ==
    IF IsIntOrFloat(amount_str)
    THEN Decimal(str(amount_str))
    ELSE DecimalOrZero(DetectFormat(str(amount_str)))

parse_german_amount_v6(amount_str) ==
    IF IsIntOrFloat(amount_str)
    THEN Decimal(str(amount_str))
    ELSE DecimalOrZero(replace(replace(strip(replace(str(amount_str), "EUR", <<>>)),
                                       ".", <<>>), ",", <<".">>))

parse_german_amount_v2(amount_str) ==
    IF amount_str.t # "str"
    THEN Raise("AttributeError")
    ELSE Decimal(replace(replace(strip(replace(amount_str.s, "EUR", <<>>)),
                                 ".", <<>>), ",", <<".">>))

(***************************************************************************)
(* validate_number_conversion (version 8).                                 *)
(* A float held in a result is written PyFloat(d): the double nearest to   *)
(* the decimal d.  For the decimals of the model (at most 15 significant   *)
(* digits) different d give different doubles, and str() of the double     *)
(* prints d again.  Arithmetic on floats is done on the doubles.           *)
(***************************************************************************)
PyFloat(d) == [t |-> "float", d |-> d]
None == [t |-> "None"]

\* The float a JSON value takes in "float - value"; str, None, list and dict
\* raise TypeError.  True and False count as 1 and 0.
IsNumber(x) == x.t \in {"num", "bool"}
AsDecimal(x) == IF x.t = "num" THEN x.d ELSE IF x.b THEN [m |-> 1, s |-> 0] ELSE Zero

\* abs(a - b) < 0.01 on two floats
FloatClose(a, b) == FloatLt(FloatAbs(FloatSub(a, b)), float(Cent))

\* Lines 83-89, once both values are floats
ConversionMatch(original, converted, parsed, python_converted, llm) ==
    LET match == FloatClose(python_converted, llm)
    IN  [original_string |-> original, llm_converted |-> converted,
         python_converted |-> PyFloat(parsed), conversion_match |-> match,
         difference |-> IF match THEN FloatZero ELSE FloatAbs(FloatSub(python_converted, llm)),
         error |-> FALSE]

\* Lines 79-97, parsed being parse_german_amount(original)
ConversionRecord(original, converted, parsed) ==
    IF parsed.k = "raise" \/ ~IsNumber(converted)
    THEN [original_string |-> original, llm_converted |-> converted,
          python_converted |-> None, conversion_match |-> FALSE,
          difference |-> None, error |-> TRUE]
    ELSE ConversionMatch(original, converted, parsed.v,
                         float(parsed.v), float(AsDecimal(converted)))

validate_number_conversion(original, converted) ==
    ConversionRecord(original, converted, parse_german_amount(original))

(***************************************************************************)
(* ask_llm_v8_analysis after the LLM call, and validate_with_python_v8.    *)
(* A dict is JDict(f), f a function from the keys it holds; a result of a  *)
(* function that may raise is Ok/Raise or [k |-> "ok", v |-> ...].         *)
(***************************************************************************)
EmptyDict == JDict(<<>>)
EmptyStr == JStr(<<>>)

Field(kind, i) == [kind |-> kind, i |-> i]   \* "anfangssaldo", "endsaldo", f"transaktion_{i}"

\* val["field"] = field
WithField(val, field) ==
    [key \in DOMAIN val \cup {"field"} |-> IF key = "field" THEN field ELSE val[key]]

\* Lines 245-260: the conversion check of one balance, if it is a dict with a
\* betrag_original that is not empty.
SaldoConversion(result, key) ==
    LET saldo == get(result, key, None)
    IN  IF saldo.t = "dict" /\ Truthy(get(saldo, "betrag_original", EmptyStr))
        THEN <<WithField(validate_number_conversion(get(saldo, "betrag_original", EmptyStr),
                                                    get(saldo, "betrag_nummer", JNum(Zero))),
                         Field(key, 0))>>
        ELSE <<>>

\* What "for t in value" iterates over: the items of a list, the characters of
\* a str, the keys of a dict; anything else raises TypeError.
Iterable(value) == value.t \in {"list", "str", "dict"}
Items(value) ==
    CASE value.t = "list" -> value.l
      [] value.t = "str" -> [i \in 1..Len(value.s) |-> JStr(<<value.s[i]>>)]
      [] value.t = "dict" -> [i \in 1..Cardinality(DOMAIN value.f) |-> JStr(<<"x">>)]

\* Lines 263-270
RECURSIVE TransConversions(_, _)
TransConversions(items, i) ==
    IF i > Len(items) THEN <<>>
    ELSE LET trans == items[i]
         IN  (IF trans.t = "dict" /\ Truthy(get(trans, "betrag_original", EmptyStr))
              THEN <<WithField(validate_number_conversion(get(trans, "betrag_original", EmptyStr),
                                                          get(trans, "betrag_nummer", JNum(Zero))),
                               Field("transaktion", i))>>
              ELSE <<>>)
             \o TransConversions(items, i + 1)

\* next((c for c in conversions if c["field"] == field), None)
FindConversion(conversions, field) ==
    IF \E j \in DOMAIN conversions : conversions[j].field = field
    THEN conversions[CHOOSE j \in DOMAIN conversions :
                        /\ conversions[j].field = field
                        /\ \A h \in 1..(j - 1) : conversions[h].field # field]
    ELSE None

\* str(float): integral floats print with ".0"
FloatStr(f) == IF f.d.s = 0 THEN NumStr(f.d) \o <<".", "0">> ELSE NumStr(f.d)

\* Lines 300-304: the Python-converted value if there is one, else the LLM's
\* number, else its string, else 0.
TrustedAmount(data, conv) ==
    IF conv # None /\ conv.python_converted # None
    THEN Decimal(FloatStr(conv.python_converted))
    ELSE parse_german_amount(get(data, "betrag_nummer", get(data, "betrag_original", JNum(Zero))))

\* Lines 297-318
SaldoAmount(llm_result, conversions, key) ==
    LET data == get(llm_result, key, EmptyDict)
    IN  IF data.t = "dict"
        THEN TrustedAmount(data, FindConversion(conversions, Field(key, 0)))
        ELSE parse_german_amount(data)

\* Line 331: summe += betrag
Accumulate_Overwrite(summe, betrag) == betrag

Accumulate(summe, betrag) == DecAdd(summe, betrag)

\* Lines 323-330: the amount of entry t, conv being its conversion check
Betrag(t, conv) ==
    IF (conv # None /\ conv.python_converted # None) \/ t.t = "dict"
    THEN TrustedAmount(t, conv)
    ELSE Raise("AttributeError")              \* t.get on what is no dict

TransactionAmounts(items, conversions) ==
    [i \in 1..Len(items) |->
        Betrag(items[i], FindConversion(conversions, Field("transaktion", i)))]

\* Lines 321-331: the sum, up to the first amount that raises
RECURSIVE SumTransactions(_, _, _)
SumTransactions(amounts, i, summe) ==
    IF i > Len(amounts) THEN Ok(summe)
    ELSE IF amounts[i].k = "raise" THEN amounts[i]
    ELSE SumTransactions(amounts, i + 1, Accumulate(summe, amounts[i].v))

\* Line 346: differenz < Decimal('0.01')
WithinTolerance_Inclusive(differenz) == ~DecLt(Cent, differenz)

WithinTolerance(differenz) == DecLt(differenz, Cent)

\* Line 342: the closing balance reported is the one of the document.
ReportedClosing_Computed(endsaldo, berechneter_saldo) == berechneter_saldo

ReportedClosing(endsaldo, berechneter_saldo) == endsaldo

\* Line 338
ConversionErrors(conversions) ==
    Cardinality({j \in DOMAIN conversions : ~conversions[j].conversion_match})

ValidationError == [error |-> TRUE, validierung_ok |-> FALSE]

\* Lines 333-356, after the three amounts
ValidationResult(anfangssaldo, endsaldo, summe, conversions) ==
    IF anfangssaldo.k = "raise" \/ endsaldo.k = "raise" \/ summe.k = "raise"
    THEN ValidationError
    ELSE LET berechneter_saldo == DecAdd(anfangssaldo.v, summe.v)
             differenz == DecAbs(DecSub(berechneter_saldo, endsaldo.v))
         IN  [anfangssaldo |-> PyFloat(anfangssaldo.v),
              endsaldo_aus_dokument |-> PyFloat(ReportedClosing(endsaldo.v, berechneter_saldo)),
              transaktionen_summe |-> PyFloat(summe.v),
              berechneter_endsaldo |-> PyFloat(berechneter_saldo),
              differenz |-> PyFloat(differenz),
              validierung_ok |-> WithinTolerance(differenz),
              conversion_errors |-> ConversionErrors(conversions),
              total_conversions |-> Len(conversions)]

\* The sum starts at one cent instead of 0.
TransactionSum_FromCent(transaktionen, conversions) ==
    IF Iterable(transaktionen)
    THEN SumTransactions(TransactionAmounts(Items(transaktionen), conversions), 1, Cent)
    ELSE Raise("TypeError")

\* Only the first entry is added.
TransactionSum_FirstOnly(transaktionen, conversions) ==
    IF Iterable(transaktionen)
    THEN SumTransactions(TransactionAmounts(SubSeq(Items(transaktionen), 1,
                                                   IF Items(transaktionen) = <<>> THEN 0 ELSE 1),
                                            conversions), 1, Zero)
    ELSE Raise("TypeError")

\* Lines 321-331; what is no list, str or dict cannot be iterated.
TransactionSum(transaktionen, conversions) ==
    IF Iterable(transaktionen)
    THEN SumTransactions(TransactionAmounts(Items(transaktionen), conversions), 1, Zero)
    ELSE Raise("TypeError")

validate_with_python_v8(llm_result, conversions) ==
    ValidationResult(SaldoAmount(llm_result, conversions, "anfangssaldo"),
                     SaldoAmount(llm_result, conversions, "endsaldo"),
                     TransactionSum(get(llm_result, "transaktionen", JList(<<>>)), conversions),
                     conversions)

\* Lines 232-239: the answer as json.loads gives it; an answer that is no
\* JSON, or is JSON but no dict (result.keys() raises inside the try), is
\* replaced by {}.
Unparseable == [t |-> "unparseable"]
ParsedResult(answer) == IF answer.t = "dict" THEN answer ELSE EmptyDict

\* Lines 273-286
Analysis(json_file, result, conversion_validations) ==
    [datei |-> json_file,
     auszug_nummer |-> get(result, "auszug_nummer", EmptyStr),
     anfangssaldo |-> get(result, "anfangssaldo", EmptyDict),
     endsaldo |-> get(result, "endsaldo", EmptyDict),
     transaktionen |-> get(result, "transaktionen", JList(<<>>)),
     anzahl_transaktionen |-> Len(Items(get(result, "transaktionen", JList(<<>>)))),
     validierung |-> get(result, "validierung", EmptyDict),
     conversion_validations |-> conversion_validations,
     python_validierung |-> validate_with_python_v8(result, conversion_validations)]

\* Lines 241-286 on the parsed result.  Raises TypeError if its transaktionen
\* cannot be iterated.
AnalyseParsed(json_file, result) ==
    IF ~Iterable(get(result, "transaktionen", JList(<<>>))) THEN Raise("TypeError")
    ELSE [k |-> "ok",
          v |-> Analysis(json_file, result,
                         SaldoConversion(result, "anfangssaldo")
                         \o SaldoConversion(result, "endsaldo")
                         \o TransConversions(Items(get(result, "transaktionen", JList(<<>>))), 1))]

\* Lines 232-286, from the answer of the LLM on
AnalyseResult(json_file, answer) == AnalyseParsed(json_file, ParsedResult(answer))

(***************************************************************************)
(* check_continuity_v8, lines 359-386.  The balances compared are the      *)
(* floats of python_validierung; the keys "kontinuität_ok" and             *)
(* "kontinuität_prüfungen" are written with ae and ue here.                *)
(***************************************************************************)
\* python_validierung holds the balances unless it is the error result.
HasBalances(analyse) == "error" \notin DOMAIN analyse.python_validierung

\* Line 372: diff < 0.01, on floats
kontinuitaet_ok(diff) == FloatLt(diff, float(Cent))

\* Lines 364-381, one pass of the loop
CheckRecord(current, next_stmt, current_end, next_start, diff) ==
    [auszug_von |-> current.auszug_nummer,
     auszug_nach |-> next_stmt.auszug_nummer,
     endsaldo_von |-> current_end,
     anfangssaldo_nach |-> next_start,
     kontinuitaet_ok |-> kontinuitaet_ok(diff),
     differenz |-> diff]

Difference(current_end, next_start) ==
    FloatAbs(FloatSub(float(current_end.d), float(next_start.d)))

ContinuityCheck(current, next_stmt) ==
    CheckRecord(current, next_stmt,
                current.python_validierung.endsaldo_aus_dokument,
                next_stmt.python_validierung.anfangssaldo,
                Difference(current.python_validierung.endsaldo_aus_dokument,
                           next_stmt.python_validierung.anfangssaldo))

ContinuityResult(kontinuitaet_checks) ==
    [kontinuitaet_pruefungen |-> kontinuitaet_checks,
     alle_ok |-> \A i \in DOMAIN kontinuitaet_checks : kontinuitaet_checks[i].kontinuitaet_ok]

\* Raises KeyError at the first pair with a python_validierung that is the
\* error result.
check_continuity_v8(analysen) ==
    IF \E i \in 1..(Len(analysen) - 1) :
           ~HasBalances(analysen[i]) \/ ~HasBalances(analysen[i + 1])
    THEN Raise("KeyError")
    ELSE [k |-> "ok",
          v |-> ContinuityResult([i \in 1..(Len(analysen) - 1) |->
                                     ContinuityCheck(analysen[i], analysen[i + 1])])]

\* main, lines 437-440: the analyses of the answers in file order; a document
\* whose analysis raises adds nothing.
Appended(analyse) == IF analyse.k = "ok" THEN <<analyse.v>> ELSE <<>>

RECURSIVE AlleAnalysen(_, _)
AlleAnalysen(answers, i) ==
    IF i > Len(answers) THEN <<>>
    ELSE Appended(AnalyseResult(i, answers[i])) \o AlleAnalysen(answers, i + 1)

(***************************************************************************)
(* Version 6, lines 307-336: the reconciliation inside ask_llm_v6_analysis *)
(* reads the key betrag and keeps the sign of the difference.              *)
(***************************************************************************)
BetragV6(holder) ==
    IF holder.t = "dict" THEN Decimal(str(get(holder, "betrag", JNum(Zero))))
    ELSE Raise("AttributeError")

RECURSIVE SumBetragV6(_, _, _)
SumBetragV6(items, i, trans_summe) ==
    IF i > Len(items) THEN Ok(trans_summe)
    ELSE LET betrag == BetragV6(items[i])
         IN  IF betrag.k = "raise" THEN betrag
             ELSE SumBetragV6(items, i + 1, DecAdd(trans_summe, betrag.v))

python_validierung_v6(result) ==
    LET anfang == BetragV6(get(result, "anfangssaldo", EmptyDict))
        ende == BetragV6(get(result, "endsaldo", EmptyDict))
        transaktionen == get(result, "transaktionen", JList(<<>>))
        trans_summe == IF Iterable(transaktionen)
                       THEN SumBetragV6(Items(transaktionen), 1, Zero)
                       ELSE Raise("TypeError")
    IN  IF anfang.k = "raise" \/ ende.k = "raise" \/ trans_summe.k = "raise"
        THEN [fehler |-> TRUE]
        ELSE LET berechnet == DecAdd(anfang.v, trans_summe.v)
                 differenz == DecSub(ende.v, berechnet)
             IN  [anfangssaldo |-> PyFloat(anfang.v),
                  endsaldo_aus_dokument |-> PyFloat(ende.v),
                  transaktionen_summe |-> PyFloat(trans_summe.v),
                  berechneter_endsaldo |-> PyFloat(berechnet),
                  differenz |-> PyFloat(differenz),
                  validierung_ok |-> DecLt(DecAbs(differenz), Cent)]

(***************************************************************************)
(* The German text of a number, version 7 lines 307 and 318:               *)
(*   f"{x:,.2f} EUR".replace(",", "X").replace(".", ",").replace("X", ".") *)
(***************************************************************************)
\* Digits in groups of three from the right, the groups joined by sep.
RECURSIVE Grouped(_, _)
Grouped(digits, sep) ==
    IF Len(digits) <= 3 THEN digits
    ELSE Grouped(SubSeq(digits, 1, Len(digits) - 3), sep)
         \o <<sep>> \o SubSeq(digits, Len(digits) - 2, Len(digits))

\* format(x, ",.2f") of a number of at most two decimals.
Format2f(d) ==
    LET cents == Abs(d.m) * Pow10(2 - d.s)
    IN  (IF d.m < 0 THEN <<"-">> ELSE <<>>)
        \o Grouped(NatDigits(cents \div 100), ",")
        \o <<".">> \o ZeroPad(NatDigits(cents % 100), 2)

\* The '.' turned into ',' without the swap through "X".
betrag_text_NoSwap(x) == replace(Format2f(x) \o <<" ", "EUR">>, ".", <<",">>)

betrag_text(x) ==
    replace(replace(replace(Format2f(x) \o <<" ", "EUR">>, ",", <<"X">>),
                    ".", <<",">>), "X", <<".">>)

(***************************************************************************)
(* Inputs of the normaliser.                                               *)
(***************************************************************************)
RawAlphabet == {"0", "1", ".", ",", "-", "+", " ", "EUR", "x"}
GenDigits == {"0", "7"}

SeqsUpTo(A, n) == UNION {[1..k -> A] : k \in 0..n}

\* Integer parts: one digit, or several without a leading zero.
IntParts == {s \in SeqsUpTo(GenDigits, MaxIntDigits) : Len(s) = 1 \/ (Len(s) > 1 /\ s[1] # "0")}
Signs == {<<>>, <<"-">>, <<"+">>}
Markers == {<<>>, <<"EUR">>, <<" ", "EUR">>}

SignOf(sign) == IF sign = <<"-">> THEN -1 ELSE 1

\* A number in the German wire format: optional sign, integer digits grouped
\* in threes by '.', optionally ',' and two decimals, optional EUR marker.
GermanText(sign, int, frac, eur) ==
    sign \o Grouped(int, ".") \o (IF frac = <<>> THEN <<>> ELSE <<",">> \o frac) \o eur

\* The same number as an American-style literal: no grouping, '.' for decimals.
AmericanLiteral(sign, int, frac) ==
    sign \o int \o (IF frac = <<>> THEN <<>> ELSE <<".">> \o frac)

RawInputs ==
    {[fam |-> "raw", x |-> JStr(s)] : s \in SeqsUpTo(RawAlphabet, MaxStrLen)}
    \cup {[fam |-> "raw", x |-> v] :
            v \in {JBool(TRUE), JBool(FALSE), JNull, JNum(Zero),
                   JNum([m |-> -15, s |-> 1]), JNum([m |-> 40510775, s |-> 2])}}

GermanInputs ==
    {[fam |-> "german", sign |-> sg, int |-> i, frac |-> f,
      x |-> JStr(GermanText(sg, i, f, e))] :
        sg \in Signs, i \in IntParts, f \in {<<>>} \cup [1..2 -> GenDigits], e \in Markers}

OneDotInputs ==
    {[fam |-> "onedot", sign |-> sg, int |-> i, frac |-> f,
      x |-> JStr(sg \o i \o <<".">> \o f)] :
        sg \in Signs, i \in SeqsUpTo(GenDigits, 2), f \in SeqsUpTo(GenDigits, MaxFracDigits)}

NumInputs ==
    {[fam |-> "num", d |-> DecNorm(SignOf(sg) * DigitsVal(i \o f), 2)] :
        sg \in {<<>>, <<"-">>}, i \in IntParts, f \in [1..2 -> GenDigits]}

NoResult == [op |-> "none"]

InitNorm ==
    /\ inp \in RawInputs \cup GermanInputs \cup OneDotInputs \cup NumInputs
    /\ out = NoResult

\* ask_llm_v7_analysis, lines 304-326: a bare number becomes its German text.
Serialize ==
    /\ inp.fam = "num"
    /\ inp' = [fam |-> "text", d |-> inp.d, x |-> JStr(betrag_text(inp.d))]
    /\ UNCHANGED out

NormalizeV8 ==
    /\ inp.fam # "num" /\ out = NoResult
    /\ out' = [op |-> "v8", r |-> parse_german_amount(inp.x)]
    /\ UNCHANGED inp

NormalizeV6 ==
    /\ inp.fam # "num" /\ out = NoResult
    /\ out' = [op |-> "v6", r |-> parse_german_amount_v6(inp.x)]
    /\ UNCHANGED inp

NormalizeV2 ==
    /\ inp.fam # "num" /\ out = NoResult
    /\ out' = [op |-> "v2", r |-> parse_german_amount_v2(inp.x)]
    /\ UNCHANGED inp

NextNorm == Serialize \/ NormalizeV8 \/ NormalizeV6 \/ NormalizeV2

SpecNorm == InitNorm /\ [][NextNorm]_vars

(***************************************************************************)
(* Claims about the normaliser, checked under SpecNorm.                    *)
(***************************************************************************)
\* The number a generated input writes: its digits, its sign, its decimals.
WrittenValue(i) == DecNorm(SignOf(i.sign) * DigitsVal(i.int \o i.frac), Len(i.frac))

\* C4: for every amount string in German format with two decimals (optional
\* leading sign, '.' grouping in threes, optional EUR marker), versions 8 and 6
\* of the normaliser return what Decimal returns for the American-style
\* literal of the same number.
C4_GermanEqualsAmerican ==
    (inp.fam = "german" /\ Len(inp.frac) = 2 /\ out.op \in {"v8", "v6"})
        => out.r = Decimal(AmericanLiteral(inp.sign, inp.int, inp.frac))

\* A negative amount with two grouping dots and the EUR marker was normalised
\* by version 8 to a negative number.
C4_Witness ==
    /\ inp.fam = "german" /\ Len(inp.frac) = 2 /\ Len(inp.int) = 7
    /\ inp.sign = <<"-">> /\ count(inp.x.s, "EUR") = 1
    /\ out.op = "v8" /\ out.r.k = "dec" /\ out.r.v.m < 0 /\ out.r.v.s = 2

\* C5 (as claimed): version 8 of the normaliser never raises, for any value a
\* draft can hold; what it cannot parse gives exactly zero.
C5_NeverRaises ==
    out.op = "v8" =>
        /\ out.r.k = "dec"
        /\ (~IsIntOrFloat(inp.x) /\ Decimal(DetectFormat(str(inp.x))).k = "raise")
              => out.r.v = Zero

\* C6: round trip.  The German text of a number of at most two decimals, as
\* version 7 writes it, and every German-format text of an integer or of a
\* number with two decimals (any sign, any magnitude, below 1000 or grouped),
\* is normalised by version 8 back to that number.
C6_RoundTrip ==
    /\ (inp.fam = "text" /\ out.op = "v8") => out.r = Ok(inp.d)
    /\ (inp.fam = "german" /\ out.op = "v8") => out.r = Ok(WrittenValue(inp))

\* A negative number of at least a million, serialised with two grouping dots,
\* came back.
C6_Witness ==
    /\ inp.fam = "text" /\ inp.d.m < -100000000 /\ inp.d.s = 2
    /\ count(inp.x.s, ".") = 2 /\ out.op = "v8" /\ out.r = Ok(inp.d)

\* C7: a text with exactly one '.' and no ',': two digits after the '.' keep
\* it as the decimal point, three digits after it remove it (an integer).
C7_OneDotRule ==
    (inp.fam = "onedot" /\ out.op = "v8") =>
        /\ Len(inp.frac) = 2 => out.r = Ok(WrittenValue(inp))
        /\ Len(inp.frac) = 3 => out.r = Ok(DecNorm(SignOf(inp.sign) * DigitsVal(inp.int \o inp.frac), 0))

\* "-7.077" became -7077.
C7_Witness ==
    /\ inp.fam = "onedot" /\ out.op = "v8" /\ inp.sign = <<"-">> /\ inp.int = <<"7">>
    /\ inp.frac = <<"0", "7", "7">> /\ out.r.v = [m |-> -7077, s |-> 0]

(***************************************************************************)
(* The auditor on its own: SpecAudit.                                      *)
(***************************************************************************)
\* The text of an amount as a statement prints it: betrag_text without " EUR".
GermanAmount(d) == LET s == betrag_text(d) IN SubSeq(s, 1, Len(s) - 2)

AuditAmounts ==
    {DecNorm(c, 2) : c \in (-MaxCents)..MaxCents}
    \cup {[m |-> -23700, s |-> 0], [m |-> -237, s |-> 1], [m |-> 45010596, s |-> 2]}

AuditOriginals ==
    {JStr(GermanAmount(d)) : d \in AuditAmounts} \cup {JStr(<<"x">>), JBool(TRUE)}

\* What the LLM gives as betrag_nummer: one of the amounts, an amount with a
\* third decimal, or a value that is no number.
AuditClaimed ==
    {JNum(d) : d \in AuditAmounts}
    \cup {JNum(DecNorm(10 * c + 5, 3)) : c \in 0..MaxCents}
    \cup {JStr(<<"0", ".", "0", "1">>), JNull, JBool(TRUE)}

InitAudit ==
    /\ inp \in {[original |-> o, converted |-> c] : o \in AuditOriginals, c \in AuditClaimed}
    /\ out = NoResult

Audit ==
    /\ out = NoResult
    /\ out' = [op |-> "audit", r |-> validate_number_conversion(inp.original, inp.converted)]
    /\ UNCHANGED inp

SpecAudit == InitAudit /\ [][Audit]_vars

\* C10 (as claimed): trusted_value is normalize(original_string), and matches
\* is true exactly when the trusted and the claimed number differ by less than
\* 0.01.
C10_AuditExact ==
    (out.op = "audit" /\ inp.original.t = "str" /\ inp.converted.t = "num") =>
        LET trusted == parse_german_amount(inp.original).v
        IN  /\ out.r.python_converted = PyFloat(trusted)
            /\ out.r.conversion_match
                 <=> DecLt(DecAbs(DecSub(trusted, inp.converted.d)), Cent)


(***************************************************************************)
(* Reconciliation of one document.  A period is what the statement says:   *)
(* opening and closing balance and the amounts of the entries; the draft   *)
(* is the LLM's JSON for it, in one of the shapes the prompts ask for.     *)
(***************************************************************************)
MaxEntries == 2

ReconOpenings == {Zero, DecNorm(123456, 2)}
ReconClosings == {Zero, Cent, DecNorm(5, 3), DecNorm(123456, 2)}
ReconEntryAmounts == {Cent, DecNeg(Cent), DecNorm(123456, 2), DecNorm(5, 3)}

ReconPeriods ==
    {[opening |-> o, closing |-> c, entries |-> e] :
        o \in ReconOpenings, c \in ReconClosings, e \in SeqsUpTo(ReconEntryAmounts, MaxEntries)}

\* The statement of the end-to-end scenario.
ExamplePeriod ==
    [opening |-> DecNorm(39121464, 2), closing |-> DecNorm(40510775, 2),
     entries |-> <<DecNorm(-17086, 2), DecNorm(-195, 2), DecNorm(3700000, 2),
                   DecNorm(-10104600, 2), DecNorm(-10048000, 2), DecNorm(10392460, 2),
                   DecNorm(1000000, 2), DecNorm(-1125, 2), DecNorm(4198954, 2),
                   DecNorm(-2000000, 2), DecNorm(4268903, 2)>>]

\* "dual": German string and the right number (version 8); "misread": the
\* number read with the grouping point as decimal point; "number": no string;
\* "betrag": the single key of version 6.
DualStyles == {"dual", "misread"}
ReconStyles == DualStyles \cup {"number", "betrag"}

Snapshot(d, style) ==
    CASE style = "dual" ->
           JDict([betrag_original |-> JStr(GermanAmount(d)), betrag_nummer |-> JNum(d)])
      [] style = "misread" ->
           JDict([betrag_original |-> JStr(GermanAmount(d)),
                  betrag_nummer |-> JNum(DecNorm(d.m, d.s + 3))])
      [] style = "number" -> JDict([betrag_nummer |-> JNum(d)])
      [] style = "betrag" -> JDict([betrag |-> JNum(d)])

DraftNr(period, style, nr) ==
    JDict([auszug_nummer |-> JStr(nr),
           anfangssaldo |-> Snapshot(period.opening, style),
           endsaldo |-> Snapshot(period.closing, style),
           transaktionen |-> JList([i \in 1..Len(period.entries) |->
                                       Snapshot(period.entries[i], style)])])

Draft(period, style) == DraftNr(period, style, <<"7">>)

\* A German string has two decimals.
TwoDecimals(period) ==
    /\ period.opening.s <= 2
    /\ period.closing.s <= 2
    /\ \A i \in 1..Len(period.entries) : period.entries[i].s <= 2

\* Answers of the LLM that are no statement: no JSON, no dict, a balance that
\* is a bare number or missing, an entry that is no dict, an entries list
\* that is null.
MalformedResults ==
    {Unparseable, EmptyDict, JList(<<>>),
     JDict([anfangssaldo |-> JNum(Cent), endsaldo |-> JStr(<<"0", ",", "0", "7">>)]),
     JDict([endsaldo |-> Snapshot(Cent, "dual"), transaktionen |-> JList(<<JStr(<<"x">>)>>)]),
     JDict([endsaldo |-> Snapshot(Cent, "number"), transaktionen |-> JNull])}

ReconInputs ==
    {[style |-> x[1], period |-> x[2], result |-> Draft(x[2], x[1])] :
        x \in {y \in ReconStyles \X (ReconPeriods \cup {ExamplePeriod}) :
                  y[1] \in DualStyles => TwoDecimals(y[2])}}
    \cup {[style |-> "malformed", period |-> None, result |-> r] : r \in MalformedResults}

InitRecon ==
    /\ inp \in ReconInputs
    /\ out = NoResult

\* ask_llm_v8_analysis from the parsed answer on
AnalyseV8 ==
    /\ out = NoResult
    /\ out' = [op |-> "analyse_v8", r |-> AnalyseResult("Konto_Auszug", inp.result)]
    /\ UNCHANGED inp

\* ask_llm_v6_analysis, the block "Python-Validierung"
ReconcileV6 ==
    /\ out = NoResult
    /\ inp.result.t = "dict"               \* json.loads gave a dict
    /\ out' = [op |-> "reconcile_v6", r |-> python_validierung_v6(inp.result)]
    /\ UNCHANGED inp

NextRecon == AnalyseV8 \/ ReconcileV6

SpecRecon == InitRecon /\ [][NextRecon]_vars


\* What the statement says, in thousandths of a euro.
Mills(d) == d.m * Pow10(3 - d.s)

RECURSIVE SumMills(_)
SumMills(entries) ==
    IF entries = <<>> THEN 0 ELSE Mills(Head(entries)) + SumMills(Tail(entries))

FromMills(n) == PyFloat(DecNorm(n, 3))

ComputedMills(period) == Mills(period.opening) + SumMills(period.entries)

\* closing minus computed closing
DiscrepancyMills(period) == Mills(period.closing) - ComputedMills(period)

\* Version 8 reconciled a draft in one of its own shapes.
ReconciledV8 ==
    /\ out.op = "analyse_v8"
    /\ inp.style \in DualStyles \cup {"number"}

python_validierung == out.r.v.python_validierung

C2_Tolerance ==
    /\ ReconciledV8 =>
          /\ out.r.k = "ok"
          /\ python_validierung.validierung_ok <=> Abs(DiscrepancyMills(inp.period)) < 10
    /\ (out.op = "reconcile_v6" /\ inp.style = "betrag") =>
          /\ "fehler" \notin DOMAIN out.r
          /\ out.r.validierung_ok <=> Abs(DiscrepancyMills(inp.period)) < 10

\* The closing of the document is exactly one cent above the computed one.
C2_Witness ==
    /\ ReconciledV8
    /\ inp.period.entries # <<>>
    /\ DiscrepancyMills(inp.period) = 10
    /\ ~python_validierung.validierung_ok

\* C3: the closing snapshot of the result is the one of the draft and the
\* closing amount reported is the amount of the document, whatever the
\* computed closing is; the computed closing has its own field.
C3_ClosingKept ==
    (out.op = "analyse_v8" /\ out.r.k = "ok") =>
        /\ out.r.v.endsaldo = (IF inp.result.t = "dict" /\ "endsaldo" \in DOMAIN inp.result.f
                               THEN inp.result.f.endsaldo ELSE EmptyDict)
        /\ ReconciledV8 =>
              /\ python_validierung.endsaldo_aus_dokument = FromMills(Mills(inp.period.closing))
              /\ python_validierung.berechneter_endsaldo = FromMills(ComputedMills(inp.period))

\* The computed closing differs from the closing of the document.
C3_Witness ==
    /\ ReconciledV8
    /\ inp.style = "dual"
    /\ DiscrepancyMills(inp.period) = 1234560
    /\ out.r.v.endsaldo = Snapshot(inp.period.closing, "dual")
    /\ python_validierung.endsaldo_aus_dokument # python_validierung.berechneter_endsaldo


(***************************************************************************)
(* Continuity of a batch: the statements of consecutive periods, analysed  *)
(* in file order, then check_continuity_v8 on the analyses.                *)
(***************************************************************************)
MaxDocs == 3

ContOpenings ==
    {DecNorm(2, 2), DecNorm(3, 2), DecNorm(45010775, 2), DecNorm(45010596, 2)}
ContClosings == {DecNorm(3, 2), DecNorm(45010775, 2)}

ContPeriods ==
    {[opening |-> o, closing |-> c, entries |-> <<>>] : o \in ContOpenings, c \in ContClosings}

ContBatches == UNION {[1..n -> ContPeriods] : n \in 1..MaxDocs}

\* The statement numbers start at 3 (Konto_Auszug_2022_0003).
Nr(i) == NatDigits(i + 2)

Drafts(periods, style) == [i \in 1..Len(periods) |-> DraftNr(periods[i], style, Nr(i))]

InitCont ==
    /\ inp \in {[periods |-> b, answers |-> Drafts(b, "dual")] : b \in ContBatches}
    /\ out = NoResult

Continuity ==
    /\ out = NoResult
    /\ out' = [op |-> "continuity", r |-> check_continuity_v8(AlleAnalysen(inp.answers, 1))]
    /\ UNCHANGED inp

SpecCont == InitCont /\ [][Continuity]_vars

\* C8 (as claimed): n periods give n-1 checks, one per adjacent pair and in
\* order, each between the closing of the left and the opening of the right
\* period, and a check is continuous exactly when these two differ by less
\* than 0.01.
C8_Continuity ==
    out.op = "continuity" =>
        LET n == Len(inp.periods)
            checks == out.r.v.kontinuitaet_pruefungen
        IN  /\ out.r.k = "ok"
            /\ Len(checks) = n - 1
            /\ \A i \in 1..(n - 1) :
                  /\ checks[i].auszug_von = JStr(Nr(i))
                  /\ checks[i].auszug_nach = JStr(Nr(i + 1))
                  /\ checks[i].endsaldo_von = FromMills(Mills(inp.periods[i].closing))
                  /\ checks[i].anfangssaldo_nach = FromMills(Mills(inp.periods[i + 1].opening))
                  /\ checks[i].kontinuitaet_ok
                       <=> Abs(Mills(inp.periods[i].closing)
                               - Mills(inp.periods[i + 1].opening)) < 10


(***************************************************************************)
(* Two batches with the same balances, period by period, and entries of    *)
(* their own: none, one of a cent, or one that is no mapping.              *)
(***************************************************************************)
PairOpenings == {DecNorm(2, 2), DecNorm(3, 2)}
PairClosing == DecNorm(3, 2)

EntryLists ==
    {JList(<<>>), JList(<<Snapshot(Cent, "dual")>>), JList(<<JStr(<<"x">>)>>)}

\* The draft with its entries replaced
WithEntries(draft, transaktionen) ==
    JDict([key \in DOMAIN draft.f |->
              IF key = "transaktionen" THEN transaktionen ELSE draft.f[key]])

PairBatches ==
    UNION {[1..n -> PairOpenings \X {JList(<<>>), JList(<<Snapshot(Cent, "dual")>>)} \X EntryLists] :
              n \in 1..MaxDocs}

PairDraft(b, i, side) ==
    WithEntries(DraftNr([opening |-> b[i][1], closing |-> PairClosing, entries |-> <<>>],
                        "dual", Nr(i)),
                b[i][side])

InitPair ==
    /\ inp \in {[answers |-> [i \in 1..Len(b) |-> PairDraft(b, i, 2)],
                 others |-> [i \in 1..Len(b) |-> PairDraft(b, i, 3)]] : b \in PairBatches}
    /\ out = NoResult

\* check_continuity_v8 on the analyses of either batch
ContinuityOfBoth ==
    /\ out = NoResult
    /\ out' = [op |-> "pair",
               r |-> check_continuity_v8(AlleAnalysen(inp.answers, 1)),
               other |-> check_continuity_v8(AlleAnalysen(inp.others, 1))]
    /\ UNCHANGED inp

SpecPair == InitPair /\ [][ContinuityOfBoth]_vars

\* C9 (as claimed): two batches that differ only in the entries of their
\* periods get the same continuity checks and the same alle_ok.
C9_EntriesDoNotMatter ==
    out.op = "pair" =>
        /\ out.r.k = "ok"
        /\ out.other = out.r


(***************************************************************************)
(* Two drafts of one statement with the same original strings; the second  *)
(* has numbers of its own: the right one, a misread one, a string or null. *)
(***************************************************************************)
ClaimedOpenings == {Zero, DecNorm(123456, 2)}
ClaimedEntries == SeqsUpTo({Cent}, MaxEntries)

\* What the LLM may give as betrag_nummer for the amount d
ClaimedNumbers(d) ==
    {JNum(d), JNum(DecNorm(d.m, d.s + 3)), JStr(<<"0", ".", "0", "3">>), JNull}

DualField(d, nummer) ==
    JDict([betrag_original |-> JStr(GermanAmount(d)), betrag_nummer |-> nummer])

ClaimedDraft(opening, closing, transaktionen) ==
    JDict([auszug_nummer |-> JStr(<<"7">>), anfangssaldo |-> opening,
           endsaldo |-> closing, transaktionen |-> JList(transaktionen)])

ClaimedInputs ==
    UNION {{[period |-> [opening |-> o, closing |-> o, entries |-> e],
             answers |-> Draft([opening |-> o, closing |-> o, entries |-> e], "dual"),
             others |-> ClaimedDraft(DualField(o, no), DualField(o, nc),
                                     [i \in 1..Len(e) |-> DualField(e[i], ne[i])])] :
               no \in ClaimedNumbers(o), nc \in ClaimedNumbers(o),
               ne \in [1..Len(e) -> ClaimedNumbers(Cent)]} :
           o \in ClaimedOpenings, e \in ClaimedEntries}

InitClaimed ==
    /\ inp \in ClaimedInputs
    /\ out = NoResult

\* ask_llm_v8_analysis on either draft
AnalyseBoth ==
    /\ out = NoResult
    /\ out' = [op |-> "both",
               r |-> AnalyseResult("Konto_Auszug", inp.answers),
               other |-> AnalyseResult("Konto_Auszug", inp.others)]
    /\ UNCHANGED inp

SpecClaimed == InitClaimed /\ [][AnalyseBoth]_vars

\* The fields of python_validierung that say what was reconciled
Reconciled(pv) ==
    IF "error" \in DOMAIN pv THEN pv
    ELSE [anfangssaldo |-> pv.anfangssaldo,
          endsaldo_aus_dokument |-> pv.endsaldo_aus_dokument,
          transaktionen_summe |-> pv.transaktionen_summe,
          berechneter_endsaldo |-> pv.berechneter_endsaldo,
          validierung_ok |-> pv.validierung_ok]

\* C11 (as claimed): two drafts with the same non-empty original strings that
\* differ only in the claimed numbers, of any value or type, get the same
\* opening, closing, sum of entries and validierung_ok.
C11_ClaimedNumberIgnored ==
    out.op = "both" =>
        /\ out.r.k = "ok" /\ out.other.k = "ok"
        /\ Reconciled(out.other.v.python_validierung) = Reconciled(out.r.v.python_validierung)


(***************************************************************************)
(* The batch run of version 8: main, lines 389-548.  inp is what the run   *)
(* meets (the service, and per document found the outcome of the LLM       *)
(* call); out holds the variables of main and where it stands.             *)
(***************************************************************************)
\* client.chat or the reading of the document raises
CallError == [t |-> "call_error"]

BatchPeriod(opening) == [opening |-> opening, closing |-> DecNorm(3, 2), entries |-> <<>>]

\* Per document: the call fails, the answer is no JSON, a statement that
\* reconciles, one that does not, one with a misread number, one with an
\* entry that is no mapping, one whose entries are null.
BatchAnswers(i) ==
    {CallError, Unparseable,
     DraftNr(BatchPeriod(DecNorm(3, 2)), "dual", Nr(i)),
     DraftNr(BatchPeriod(DecNorm(2, 2)), "dual", Nr(i)),
     DraftNr(BatchPeriod(DecNorm(3, 2)), "misread", Nr(i)),
     WithEntries(DraftNr(BatchPeriod(DecNorm(3, 2)), "dual", Nr(i)), JList(<<JStr(<<"x">>)>>)),
     WithEntries(DraftNr(BatchPeriod(DecNorm(3, 2)), "dual", Nr(i)), JNull)}

BatchRuns ==
    UNION {{a \in [1..n -> UNION {BatchAnswers(i) : i \in 1..n}] :
               \A i \in 1..n : a[i] \in BatchAnswers(i)} : n \in 0..MaxDocs}

BatchDocuments == UNION {{<<i, a>> : a \in BatchAnswers(i)} : i \in 1..MaxDocs}

\* Lines 100-286 for document json_file: client.chat raises (nothing inside
\* ask_llm_v8_analysis catches it), or the answer is analysed.
ask_llm_v8_analysis ==
    [doc \in BatchDocuments |->
        IF doc[2] = CallError THEN Raise("chat")
        ELSE AnalyseResult(doc[1], doc[2])]

\* alle_analysen after the loop over the answers from document i on
RECURSIVE Collected(_, _)
Collected(answers, i) ==
    IF i > Len(answers) THEN <<>>
    ELSE Appended(ask_llm_v8_analysis[<<i, answers[i]>>]) \o Collected(answers, i + 1)

\* Line 506: kontinuitaet = check_continuity_v8(alle_analysen)
kontinuitaet ==
    [alle \in {l \in {Collected(a, 1) : a \in BatchRuns} : Len(l) > 1} |->
        check_continuity_v8(alle)]

InitBatch ==
    /\ inp \in {[service |-> s, answers |-> a] : s \in BOOLEAN, a \in BatchRuns}
    /\ out = [op |-> "main", pc |-> "start", idx |-> 0, alle_analysen |-> <<>>,
              erfolgreiche_pruefungen |-> 0, gesamt_konvertierungsfehler |-> 0,
              processed |-> <<>>, written |-> 0, ergebnis |-> None, exit |-> None]

AtMain(pc) == out.op = "main" /\ out.pc = pc

\* Lines 397-406: client.list(), else sys.exit(1)
ConnectService ==
    /\ AtMain("start")
    /\ out' = IF inp.service THEN [out EXCEPT !.pc = "glob"]
              ELSE [out EXCEPT !.pc = "exit", !.exit = 1]
    /\ UNCHANGED inp

\* Lines 418-424: the documents, else sys.exit(1)
FindDocuments ==
    /\ AtMain("glob")
    /\ out' = IF inp.answers # <<>> THEN [out EXCEPT !.pc = "loop"]
              ELSE [out EXCEPT !.pc = "exit", !.exit = 1]
    /\ UNCHANGED inp

\* Lines 440-493 once the analysis is there: it is appended, the conversion
\* errors are counted, then validierung_ok counts the success; the error
\* result has no differenz and printing '?' with :.2f raises ValueError, which
\* line 496 catches.
Processed(state, analyse) ==
    [state EXCEPT
        !.alle_analysen = Append(@, analyse),
        !.gesamt_konvertierungsfehler = @ + ConversionErrors(analyse.conversion_validations),
        !.erfolgreiche_pruefungen =
            IF analyse.python_validierung.validierung_ok THEN @ + 1 ELSE @]

\* Lines 432-498, one document: what raises inside the try is caught.
Attempt(state, analyse) == IF analyse.k = "ok" THEN Processed(state, analyse.v) ELSE state

NextDocument(state, n) ==
    [state EXCEPT !.idx = @ + 1,
                  !.processed = Append(@, state.idx + 1),
                  !.pc = IF state.idx + 1 = n THEN "continuity" ELSE "loop"]

ProcessDocument ==
    /\ AtMain("loop")
    /\ out.idx < Len(inp.answers)
    /\ out' = NextDocument(
                 Attempt(out, ask_llm_v8_analysis[<<out.idx + 1, inp.answers[out.idx + 1]>>]),
                 Len(inp.answers))
    /\ UNCHANGED inp

\* An exception nothing catches ends the run with a traceback and status 1.
Crashed(state) == [state EXCEPT !.pc = "crashed", !.exit = 1]

\* Lines 500-513
AfterContinuity(state, checked) ==
    IF checked.k = "raise" THEN Crashed(state) ELSE [state EXCEPT !.pc = "save"]

CheckContinuity ==
    /\ AtMain("continuity")
    /\ out' = IF Len(out.alle_analysen) > 1
              THEN AfterContinuity(out, kontinuitaet[out.alle_analysen])
              ELSE [out EXCEPT !.pc = "save"]
    /\ UNCHANGED inp

\* Lines 515-536: the report, written to kontoauszuege_analyse_komplett_v8.json
Ergebnis(state, checked) ==
    [analysen |-> state.alle_analysen,
     anzahl_dokumente |-> Len(state.alle_analysen),
     erfolgreiche_pruefungen |-> state.erfolgreiche_pruefungen,
     gesamt_konvertierungsfehler |-> state.gesamt_konvertierungsfehler,
     kontinuitaet |-> checked]

SaveReport ==
    /\ AtMain("save")
    /\ out' = [out EXCEPT
                  !.ergebnis = Ergebnis(out, IF Len(out.alle_analysen) > 1
                                             THEN kontinuitaet[out.alle_analysen].v
                                             ELSE None),
                  !.written = @ + 1,
                  !.pc = "summary"]
    /\ UNCHANGED inp

\* Lines 538-548: ergebnis.get('kontinuitaet', {}) is None when there was no
\* continuity check, and None.get raises AttributeError.
PrintSummary ==
    /\ AtMain("summary")
    /\ out' = IF out.ergebnis.kontinuitaet = None THEN Crashed(out)
              ELSE [out EXCEPT !.pc = "done", !.exit = 0]
    /\ UNCHANGED inp

NextBatch ==
    \/ ConnectService
    \/ FindDocuments
    \/ ProcessDocument
    \/ CheckContinuity
    \/ SaveReport
    \/ PrintSummary

SpecBatch == InitBatch /\ [][NextBatch]_vars

\* The run goes on while it can.
FairBatch == SpecBatch /\ WF_vars(NextBatch)


(***************************************************************************)
(* analyze_kontoauszuege_v6: __main__, lines 502-514, and                  *)
(* analyze_all_kontoauszuege_v6, lines 385-499.  The entries of the drafts *)
(* carry no 'beschreibung', so lines 286-304 add nothing to them.          *)
(***************************************************************************)
\* Lines 341 and 345
Fehler(json_file) == [datei |-> json_file, fehler |-> TRUE]

\* Lines 283-304: "for trans in result['transaktionen']" and trans.get raise
\* unless the value is iterable and every item is a dict.
PostProcessingRaises(result) ==
    /\ "transaktionen" \in DOMAIN result.f
    /\ \/ ~Iterable(result.f.transaktionen)
       \/ \E i \in DOMAIN Items(result.f.transaktionen) :
              Items(result.f.transaktionen)[i].t # "dict"

\* Lines 242-345.  The call error and whatever the post-processing raises
\* reach the outer except; an answer that is no JSON document the inner one.
\* An answer that is JSON but no dict raises inside the handler of line 333
\* and so reaches the outer except as well.
ask_llm_v6_analysis(json_file, answer) ==
    IF answer = CallError \/ answer.t # "dict" THEN Fehler(json_file)
    ELSE IF PostProcessingRaises(answer) THEN Fehler(json_file)
    ELSE [result |-> answer, python_validierung |-> python_validierung_v6(answer)]

\* "fehler" in analysis
HasFehler(analysis) ==
    \/ "fehler" \in DOMAIN analysis
    \/ "result" \in DOMAIN analysis /\ "fehler" \in DOMAIN analysis.result.f

\* int(x) of line 358
IntOf(x) ==
    CASE x.t = "str" -> IF strip(x.s) # <<>> /\ AllDigits(strip(x.s))
                        THEN [k |-> "ok", v |-> DigitsVal(strip(x.s))]
                        ELSE Raise("ValueError")
      [] x.t = "num" -> [k |-> "ok",
                         v |-> (IF x.d.m < 0 THEN -1 ELSE 1) * (Abs(x.d.m) \div Pow10(x.d.s))]
      [] x.t = "bool" -> [k |-> "ok", v |-> IF x.b THEN 1 ELSE 0]
      [] OTHER -> Raise("TypeError")

AuszugKey(analysis) == IntOf(get(analysis.result, "auszug_nummer", JNum(Zero)))

\* sorted(..., key=...): stable
RECURSIVE Inserted(_, _)
Inserted(sorted, analysis) ==
    IF sorted = <<>> THEN <<analysis>>
    ELSE IF AuszugKey(sorted[Len(sorted)]).v <= AuszugKey(analysis).v
         THEN Append(sorted, analysis)
         ELSE Append(Inserted(SubSeq(sorted, 1, Len(sorted) - 1), analysis),
                     sorted[Len(sorted)])

RECURSIVE SortedByNumber(_, _)
SortedByNumber(analyses, i) ==
    IF i = 0 THEN <<>>
    ELSE Inserted(SortedByNumber(analyses, i - 1), analyses[i])

\* Lines 365-366
BetragOf(analysis, key) ==
    LET holder == get(analysis.result, key, EmptyDict)
    IN  IF holder.t = "dict" THEN get(holder, "betrag", JNum(Zero)) ELSE None

\* Lines 368-377 for two numbers
ContinuityRecordV6(current, next_stmt, current_end, next_start) ==
    [auszug_von |-> get(current.result, "auszug_nummer", JNull),
     auszug_nach |-> get(next_stmt.result, "auszug_nummer", JNull),
     endsaldo_von |-> current_end,
     anfangssaldo_nach |-> next_start,
     kontinuitaet_ok |-> FloatClose(float(AsDecimal(current_end)), float(AsDecimal(next_start))),
     differenz |-> FloatSub(float(AsDecimal(next_start)), float(AsDecimal(current_end)))]

WithoutFehler(analyses) == SelectSeq(analyses, LAMBDA a : ~HasFehler(a))

\* Lines 348-382
validate_statement_continuity(analyses) ==
    LET kept == WithoutFehler(analyses)
    IN  IF \E i \in DOMAIN kept : AuszugKey(kept[i]).k = "raise"
        THEN Raise("ValueError")
        ELSE LET sorted_analyses == SortedByNumber(kept, Len(kept))
             IN  IF \E i \in 1..(Len(sorted_analyses) - 1) :
                        \/ ~IsNumber(BetragOf(sorted_analyses[i], "endsaldo"))
                        \/ ~IsNumber(BetragOf(sorted_analyses[i + 1], "anfangssaldo"))
                 THEN Raise("TypeError")
                 ELSE [k |-> "ok",
                       v |-> ContinuityResult(
                                [i \in 1..(Len(sorted_analyses) - 1) |->
                                    ContinuityRecordV6(
                                        sorted_analyses[i], sorted_analyses[i + 1],
                                        BetragOf(sorted_analyses[i], "endsaldo"),
                                        BetragOf(sorted_analyses[i + 1], "anfangssaldo"))])]

\* A balance the LLM wrote as German text instead of a number
WithBalance(draft, key, betrag) ==
    JDict([k \in DOMAIN draft.f |->
              IF k = key THEN JDict([betrag |-> betrag]) ELSE draft.f[k]])

\* Per document: the call fails, the answer is no JSON, a statement that
\* reconciles, one that does not, one whose opening balance is a German
\* string, one with an entry that is no mapping.
BatchAnswersV6(i) ==
    {CallError, Unparseable,
     DraftNr(BatchPeriod(DecNorm(3, 2)), "betrag", Nr(MaxDocs + 1 - i)),
     DraftNr(BatchPeriod(DecNorm(2, 2)), "betrag", Nr(MaxDocs + 1 - i)),
     WithBalance(DraftNr(BatchPeriod(DecNorm(3, 2)), "betrag", Nr(MaxDocs + 1 - i)),
                 "anfangssaldo", JStr(<<"0", ",", "0", "3">>)),
     WithEntries(DraftNr(BatchPeriod(DecNorm(3, 2)), "betrag", Nr(MaxDocs + 1 - i)),
                 JList(<<JStr(<<"x">>)>>))}

BatchRunsV6 ==
    UNION {{a \in [1..n -> UNION {BatchAnswersV6(i) : i \in 1..n}] :
               \A i \in 1..n : a[i] \in BatchAnswersV6(i)} : n \in 0..MaxDocs}

InitBatchV6 ==
    /\ inp \in {[service |-> s, answers |-> a] : s \in BOOLEAN, a \in BatchRunsV6}
    /\ out = [op |-> "main_v6", pc |-> "start", idx |-> 0, all_analyses |-> <<>>,
              erfolgreiche |-> 0, processed |-> <<>>, written |-> 0,
              continuity |-> None, ergebnis |-> None, exit |-> None]

AtMainV6(pc) == out.op = "main_v6" /\ out.pc = pc

\* Lines 502-511: client.list(), else sys.exit(1)
ConnectServiceV6 ==
    /\ AtMainV6("start")
    /\ out' = IF inp.service THEN [out EXCEPT !.pc = "glob"]
              ELSE [out EXCEPT !.pc = "exit", !.exit = 1]
    /\ UNCHANGED inp

\* Lines 398-404: with no documents the function returns, and the script ends
\* after line 514 with status 0.
FindDocumentsV6 ==
    /\ AtMainV6("glob")
    /\ out' = IF inp.answers # <<>> THEN [out EXCEPT !.pc = "loop"]
              ELSE [out EXCEPT !.pc = "returned", !.exit = 0]
    /\ UNCHANGED inp

\* Lines 414-456 for one analysis: it is appended; a result whose
\* python_validierung is {'fehler': ...} has no 'differenz', and 'N/A' with
\* :.2f raises ValueError, which nothing catches.
LoopBody(state, analysis, n) ==
    LET appended == [state EXCEPT !.all_analyses = Append(@, analysis),
                                  !.idx = @ + 1,
                                  !.processed = Append(@, state.idx + 1)]
    IN  IF HasFehler(analysis)
        THEN [appended EXCEPT !.pc = IF state.idx + 1 = n THEN "continuity" ELSE "loop"]
        ELSE IF "fehler" \in DOMAIN analysis.python_validierung
        THEN Crashed(appended)
        ELSE [appended EXCEPT
                 !.erfolgreiche = IF analysis.python_validierung.validierung_ok
                                  THEN @ + 1 ELSE @,
                 !.pc = IF state.idx + 1 = n THEN "continuity" ELSE "loop"]

ProcessDocumentV6 ==
    /\ AtMainV6("loop")
    /\ out.idx < Len(inp.answers)
    /\ out' = LoopBody(out, ask_llm_v6_analysis(out.idx + 1, inp.answers[out.idx + 1]),
                       Len(inp.answers))
    /\ UNCHANGED inp

\* Lines 463-469
AfterContinuityV6(state, checked) ==
    IF checked.k = "raise" THEN Crashed(state)
    ELSE [state EXCEPT !.continuity = checked.v, !.pc = "save"]

CheckContinuityV6 ==
    /\ AtMainV6("continuity")
    /\ out' = AfterContinuityV6(out, validate_statement_continuity(out.all_analyses))
    /\ UNCHANGED inp

\* Lines 471-499: the report, written to kontoauszuege_analyse_komplett_v6.json,
\* and the closing summary.
SaveReportV6 ==
    /\ AtMainV6("save")
    /\ out' = [out EXCEPT
                  !.ergebnis = [analysen |-> out.all_analyses,
                                anzahl_dokumente |-> Len(out.all_analyses),
                                erfolgreiche_pruefungen |-> out.erfolgreiche,
                                kontinuitaet |-> out.continuity],
                  !.written = @ + 1,
                  !.pc = "done",
                  !.exit = 0]
    /\ UNCHANGED inp

NextBatchV6 ==
    \/ ConnectServiceV6
    \/ FindDocumentsV6
    \/ ProcessDocumentV6
    \/ CheckContinuityV6
    \/ SaveReportV6

SpecBatchV6 == InitBatchV6 /\ [][NextBatchV6]_vars


\* C12 (as claimed): a run that passed the startup checks processes every
\* document and gets through the continuity step to the writing of the
\* report, whatever fails for single documents.
C12_RunCompletes ==
    AtMain("loop") ~> (AtMain("save") /\ out.idx = Len(inp.answers))

\* C13 (as claimed): the report holds one entry per document found, in
\* processing order, and anzahl_dokumente is the number of documents found.
C13_OneEntryPerDocument ==
    (out.op = "main" /\ out.written > 0) =>
        /\ Len(out.ergebnis.analysen) = Len(inp.answers)
        /\ out.ergebnis.anzahl_dokumente = Len(inp.answers)
        /\ \A i \in 1..Len(out.ergebnis.analysen) : out.ergebnis.analysen[i].datei = i

(***************************************************************************)
(* validate_with_python of version 7, lines 346-388 (the text 'formel' of  *)
(* the result is left out).                                                *)
(***************************************************************************)
\* Lines 350-360: a balance that is a number or a string is parsed itself,
\* anything else is asked for its 'betrag'.
SaldoAmountV7(llm_result, key) ==
    LET data == get(llm_result, key, EmptyDict)
    IN  IF data.t \in {"num", "bool", "str"} THEN parse_german_amount(data)
        ELSE IF data.t = "dict" THEN parse_german_amount(get(data, "betrag", JNum(Zero)))
        ELSE Raise("AttributeError")

\* Line 367
BetragV7(t) ==
    IF t.t = "dict" THEN parse_german_amount(get(t, "betrag", JNum(Zero)))
    ELSE Raise("AttributeError")

\* Lines 362-368
TransactionSumV7(transaktionen) ==
    IF Iterable(transaktionen)
    THEN SumTransactions([i \in 1..Len(Items(transaktionen)) |->
                             BetragV7(Items(transaktionen)[i])], 1, Zero)
    ELSE Raise("TypeError")

\* Lines 370-388
ValidationResultV7(anfangssaldo, endsaldo, summe) ==
    IF anfangssaldo.k = "raise" \/ endsaldo.k = "raise" \/ summe.k = "raise"
    THEN ValidationError
    ELSE [anfangssaldo |-> PyFloat(anfangssaldo.v),
          endsaldo_aus_dokument |-> PyFloat(endsaldo.v),
          transaktionen_summe |-> PyFloat(summe.v),
          berechneter_endsaldo |-> PyFloat(DecAdd(anfangssaldo.v, summe.v)),
          differenz |-> PyFloat(DecAbs(DecSub(DecAdd(anfangssaldo.v, summe.v), endsaldo.v))),
          validierung_ok |-> DecLt(DecAbs(DecSub(DecAdd(anfangssaldo.v, summe.v), endsaldo.v)),
                                   Cent)]

validate_with_python(llm_result) ==
    ValidationResultV7(SaldoAmountV7(llm_result, "anfangssaldo"),
                       SaldoAmountV7(llm_result, "endsaldo"),
                       TransactionSumV7(get(llm_result, "transaktionen", JList(<<>>))))

(***************************************************************************)
(* A draft and the same draft with its entries in another order.           *)
(***************************************************************************)
Orders(n) == {p \in [1..n -> 1..n] : \A i, j \in 1..n : p[i] = p[j] => i = j}

Permuted(period, p) ==
    [period EXCEPT !.entries = [i \in 1..Len(period.entries) |-> period.entries[p[i]]]]

PermutedInputs ==
    UNION {{[style |-> y[1], period |-> y[2], p |-> p,
             result |-> Draft(y[2], y[1]),
             other |-> Draft(Permuted(y[2], p), y[1])] :
               p \in Orders(Len(y[2].entries))} :
           y \in {z \in ReconStyles \X ReconPeriods : z[1] \in DualStyles => TwoDecimals(z[2])}}

InitPermuted ==
    /\ inp \in PermutedInputs
    /\ out = NoResult

\* ask_llm_v8_analysis on the draft and on the permuted draft
AnalysePermuted ==
    /\ out = NoResult
    /\ inp.style # "betrag"
    /\ out' = [op |-> "permuted_v8",
               r |-> AnalyseResult("Konto_Auszug", inp.result),
               other |-> AnalyseResult("Konto_Auszug", inp.other)]
    /\ UNCHANGED inp

\* validate_with_python of version 7 on both
ValidatePermutedV7 ==
    /\ out = NoResult
    /\ inp.style = "betrag"
    /\ out' = [op |-> "permuted_v7",
               r |-> validate_with_python(inp.result),
               other |-> validate_with_python(inp.other)]
    /\ UNCHANGED inp

NextPermuted == AnalysePermuted \/ ValidatePermutedV7

SpecPermuted == InitPermuted /\ [][NextPermuted]_vars

\* C15: whatever the order of the entries, python_validierung is the same:
\* sum of the entries, computed closing, discrepancy and validierung_ok, in
\* version 8 and in version 7; it is the one of the period.
C15_OrderIndependent ==
    /\ out.op = "permuted_v8" =>
          /\ out.r.k = "ok" /\ out.other.k = "ok"
          /\ out.other.v.python_validierung = out.r.v.python_validierung
          /\ out.r.v.python_validierung.transaktionen_summe
                = FromMills(SumMills(inp.period.entries))
    /\ out.op = "permuted_v7" =>
          /\ out.other = out.r
          /\ out.r.transaktionen_summe = FromMills(SumMills(inp.period.entries))
          /\ out.r.validierung_ok <=> Abs(DiscrepancyMills(inp.period)) < 10

\* Two different entries in swapped order, and the period reconciles.
C15_Witness ==
    /\ out.op = "permuted_v8"
    /\ inp.style = "dual"
    /\ Len(inp.period.entries) = 2
    /\ inp.other # inp.result
    /\ out.other.v.python_validierung.validierung_ok
    /\ out.other.v.python_validierung.transaktionen_summe = PyFloat(Zero)

\* C16 (as claimed): with no entries the computed closing is the opening, and
\* the period reconciles exactly when opening and closing are equal.
C16_EmptyEntriesEqual ==
    (ReconciledV8 /\ inp.period.entries = <<>>) =>
        /\ out.r.k = "ok"
        /\ python_validierung.berechneter_endsaldo = FromMills(Mills(inp.period.opening))
        /\ python_validierung.validierung_ok <=> inp.period.opening = inp.period.closing

\* C16 (amended): with no entries the sum is 0 and the computed closing is the
\* opening; the period reconciles exactly when opening and closing differ by
\* less than 0.01, which for amounts in whole cents is when they are equal.
C16_EmptyEntriesTolerance ==
    (ReconciledV8 /\ inp.period.entries = <<>>) =>
        /\ out.r.k = "ok"
        /\ python_validierung.transaktionen_summe = PyFloat(Zero)
        /\ python_validierung.berechneter_endsaldo = FromMills(Mills(inp.period.opening))
        /\ python_validierung.validierung_ok
              <=> Abs(Mills(inp.period.closing) - Mills(inp.period.opening)) < 10
        /\ TwoDecimals(inp.period) =>
              (python_validierung.validierung_ok <=> inp.period.opening = inp.period.closing)

\* No entries, opening 0.000 and closing 0.005: reconciled, though not equal.
C16_Witness ==
    /\ ReconciledV8
    /\ inp.period.entries = <<>>
    /\ inp.period.opening # inp.period.closing
    /\ python_validierung.validierung_ok
    /\ python_validierung.berechneter_endsaldo = PyFloat(inp.period.opening)

(***************************************************************************)
(* Version 2, ask_llm_detailed_analysis lines 138-155: the validation      *)
(* after json.loads.                                                       *)
(***************************************************************************)
\* result[key]['betrag'] as a Decimal
BetragV2(result, key) ==
    IF key \notin DOMAIN result.f THEN Raise("KeyError")
    ELSE IF result.f[key].t # "dict" THEN Raise("TypeError")
    ELSE IF "betrag" \notin DOMAIN result.f[key].f THEN Raise("KeyError")
    ELSE Decimal(str(result.f[key].f.betrag))

python_validierung_v2(result) ==
    LET anfang == BetragV2(result, "anfangssaldo")
        ende == BetragV2(result, "endsaldo")
        summe == Decimal(str(get(result, "transaktionen_summe", JNum(Zero))))
    IN  IF anfang.k = "raise" \/ ende.k = "raise" \/ summe.k = "raise"
        THEN [fehler |-> TRUE]
        ELSE [anfangssaldo |-> PyFloat(anfang.v),
              transaktionen_summe |-> PyFloat(summe.v),
              berechneter_endsaldo |-> PyFloat(DecAdd(anfang.v, summe.v)),
              tatsaechlicher_endsaldo |-> PyFloat(ende.v),
              differenz |-> PyFloat(DecSub(ende.v, DecAdd(anfang.v, summe.v))),
              validierung_ok |-> DecLt(DecAbs(DecSub(ende.v, DecAdd(anfang.v, summe.v))), Cent)]

(***************************************************************************)
(* Two drafts of one period that differ in what the LLM claims about its   *)
(* own arithmetic.                                                         *)
(***************************************************************************)
DraftClaim(summe, differenz, ok) ==
    [transaktionen_summe |-> JNum(summe),
     differenz |-> JNum(differenz),
     validierung |-> JDict([saldo_korrekt |-> JBool(ok), differenz |-> JNum(differenz)])]

\* Nothing claimed, all is well claimed, a wrong sum and a difference claimed.
DraftClaims ==
    {<<>>, DraftClaim(Zero, Zero, TRUE), DraftClaim(DecNorm(9999, 2), DecNorm(9999, 2), FALSE)}

WithClaims(draft, claims) ==
    JDict([key \in DOMAIN draft.f \cup DOMAIN claims |->
              IF key \in DOMAIN claims THEN claims[key] ELSE draft.f[key]])

ClaimPeriods ==
    {[opening |-> o, closing |-> DecAdd(o, c), entries |-> e] :
        o \in ClaimedOpenings, c \in {Zero, Cent},
        e \in SeqsUpTo({Cent, DecNeg(Cent)}, MaxEntries)}

ClaimInputs ==
    {[style |-> x[1], period |-> x[2],
      result |-> WithClaims(Draft(x[2], x[1]), x[3]),
      other |-> WithClaims(Draft(x[2], x[1]), x[4])] :
        x \in {"dual", "number", "betrag"} \X ClaimPeriods \X DraftClaims \X DraftClaims}

InitClaims ==
    /\ inp \in ClaimInputs
    /\ out = NoResult

\* ask_llm_v8_analysis on either draft
AnalyseClaims ==
    /\ out = NoResult
    /\ inp.style # "betrag"
    /\ out' = [op |-> "claims_v8",
               r |-> AnalyseResult("Konto_Auszug", inp.result),
               other |-> AnalyseResult("Konto_Auszug", inp.other)]
    /\ UNCHANGED inp

\* The validation of version 2 on either draft
ValidateClaimsV2 ==
    /\ out = NoResult
    /\ inp.style = "betrag"
    /\ out' = [op |-> "claims_v2",
               r |-> python_validierung_v2(inp.result),
               other |-> python_validierung_v2(inp.other)]
    /\ UNCHANGED inp

NextClaims == AnalyseClaims \/ ValidateClaimsV2

SpecClaims == InitClaims /\ [][NextClaims]_vars

\* Version 8 reconciles from the balances and the entries alone.
OwnArithmeticIgnoredV8 ==
    out.op = "claims_v8" =>
        /\ out.r.k = "ok" /\ out.other.k = "ok"
        /\ out.other.v.python_validierung = out.r.v.python_validierung
        /\ out.r.v.python_validierung.transaktionen_summe
              = FromMills(SumMills(inp.period.entries))

\* C17 (as claimed): two drafts with the same opening, closing and entries
\* that differ in the claimed transaktionen_summe, differenz and validierung
\* get the same sum of entries, computed closing and validierung_ok, in
\* version 8 and in version 2.
C17_OwnArithmeticIgnored ==
    /\ OwnArithmeticIgnoredV8
    /\ out.op = "claims_v2" =>
          /\ "fehler" \notin DOMAIN out.r
          /\ out.other = out.r
          /\ out.r.transaktionen_summe = FromMills(SumMills(inp.period.entries))

\* The startup found the service unreachable or no documents.
StartupFailed == ~inp.service \/ inp.answers = <<>>

\* Version 8 after a failed startup: status 1, nothing processed or written.
StartupExitV8 ==
    (out.op = "main" /\ StartupFailed) =>
        /\ out.processed = <<>> /\ out.written = 0
        /\ out.pc \in {"start", "glob", "exit"}
        /\ out.pc = "exit" => out.exit = 1

\* C14 (as claimed): when the service is unreachable or no documents are
\* found, the run of version 6 ends at once with a status that is not 0,
\* and has processed no document and written no report.
C14_StartupExit ==
    (out.op = "main_v6" /\ StartupFailed) =>
        /\ out.processed = <<>> /\ out.written = 0
        /\ out.pc \in {"exit", "returned"} => out.exit # 0

(***************************************************************************)
(* classify_transaction_type, versions 7 (= 6), 5 and 4.  A description is *)
(* a sequence of characters; the characters ü and Ü are written "ue" and   *)
(* "UE", one token each, also in the labels returned.                      *)
(***************************************************************************)
UpperChars == <<"A", "B", "C", "D", "E", "F", "G", "H", "I", "J", "K", "L", "M",
                "N", "O", "P", "Q", "R", "S", "T", "U", "V", "W", "X", "Y", "Z", "UE">>
LowerChars == <<"a", "b", "c", "d", "e", "f", "g", "h", "i", "j", "k", "l", "m",
                "n", "o", "p", "q", "r", "s", "t", "u", "v", "w", "x", "y", "z", "ue">>

\* str.lower() and str.upper()
lower(s) ==
    [i \in DOMAIN s |->
        IF \E k \in DOMAIN UpperChars : UpperChars[k] = s[i]
        THEN LowerChars[CHOOSE k \in DOMAIN UpperChars : UpperChars[k] = s[i]]
        ELSE s[i]]

upper(s) ==
    [i \in DOMAIN s |->
        IF \E k \in DOMAIN LowerChars : LowerChars[k] = s[i]
        THEN UpperChars[CHOOSE k \in DOMAIN LowerChars : LowerChars[k] = s[i]]
        ELSE s[i]]

\* sub in s
Contains(s, sub) ==
    \E i \in 1..(Len(s) - Len(sub) + 1) : SubSeq(s, i, i + Len(sub) - 1) = sub

\* The keywords searched for, by their text without the dot
kw ==
    [wertpapierabrechnung |-> <<"w", "e", "r", "t", "p", "a", "p", "i", "e", "r", "a", "b", "r", "e", "c", "h", "n", "u", "n", "g">>,
     wertp |-> <<"w", "e", "r", "t", "p", ".">>,
     vv |-> <<"v", "v">>,
     verkauf |-> <<"v", "e", "r", "k", "a", "u", "f">>,
     kv |-> <<"k", "v">>,
     kauf |-> <<"k", "a", "u", "f">>,
     durchlfd |-> <<"d", "u", "r", "c", "h", "l", "f", "d">>,
     sperrbetr |-> <<"s", "p", "e", "r", "r", "b", "e", "t", "r">>,
     ueberweisung |-> <<"ue", "b", "e", "r", "w", "e", "i", "s", "u", "n", "g">>,
     uebertrag |-> <<"ue", "b", "e", "r", "t", "r", "a", "g">>,
     gutschriftseingang |-> <<"g", "u", "t", "s", "c", "h", "r", "i", "f", "t", "s", "e", "i", "n", "g", "a", "n", "g">>,
     lastschr |-> <<"l", "a", "s", "t", "s", "c", "h", "r">>,
     depotentgelt |-> <<"d", "e", "p", "o", "t", "e", "n", "t", "g", "e", "l", "t">>,
     entgeltabrechnung |-> <<"e", "n", "t", "g", "e", "l", "t", "a", "b", "r", "e", "c", "h", "n", "u", "n", "g">>,
     abrechnung |-> <<"a", "b", "r", "e", "c", "h", "n", "u", "n", "g">>,
     verwahrentgelt |-> <<"v", "e", "r", "w", "a", "h", "r", "e", "n", "t", "g", "e", "l", "t">>,
     wertpapier |-> <<"w", "e", "r", "t", "p", "a", "p", "i", "e", "r">>,
     depot |-> <<"d", "e", "p", "o", "t">>,
     gutschrift |-> <<"g", "u", "t", "s", "c", "h", "r", "i", "f", "t">>,
     lastschrift |-> <<"l", "a", "s", "t", "s", "c", "h", "r", "i", "f", "t">>,
     entgelt |-> <<"e", "n", "t", "g", "e", "l", "t">>,
     gebuehr |-> <<"g", "e", "b", "ue", "h", "r">>,
     kosten |-> <<"k", "o", "s", "t", "e", "n">>,
     zins |-> <<"z", "i", "n", "s">>]

\* A variant of version 7 that tests the marker of a purchase before the
\* marker of a sale
ClassifyV7_PurchaseFirst(description, desc_lower, betrag) ==
    IF Contains(desc_lower, kw.wertpapierabrechnung) \/ Contains(desc_lower, kw.wertp)
    THEN IF Contains(description, kw.kv) \/ Contains(desc_lower, kw.kauf)
         THEN "Wertpapierkauf"
         ELSE IF Contains(description, kw.vv) \/ Contains(desc_lower, kw.verkauf)
         THEN "Wertpapierverkauf"
         ELSE "Wertpapierabrechnung"
    ELSE IF Contains(desc_lower, kw.durchlfd) /\ Contains(desc_lower, kw.sperrbetr)
    THEN "Wertpapier-Sperrbetraege"
    ELSE IF Contains(desc_lower, kw.ueberweisung) \/ Contains(desc_lower, kw.uebertrag)
    THEN IF DecLt(betrag, Zero) THEN "Ueberweisung ausgehend" ELSE "Ueberweisung eingehend"
    ELSE IF Contains(desc_lower, kw.gutschriftseingang) THEN "Gutschrift"
    ELSE IF Contains(desc_lower, kw.lastschr) THEN "Lastschrift"
    ELSE IF Contains(desc_lower, kw.depotentgelt) THEN "Depotentgelt"
    ELSE IF Contains(desc_lower, kw.entgeltabrechnung) THEN "Entgeltabrechnung"
    ELSE IF Contains(desc_lower, kw.abrechnung)
    THEN IF Contains(desc_lower, kw.verwahrentgelt) THEN "Verwahrentgelt" ELSE "Abrechnung"
    ELSE IF DecLt(Zero, betrag) THEN "Eingang"
    ELSE "Ausgang"

\* Version 7, lines 94-126 (version 6, lines 52-84, is the same text)
ClassifyV7(description, desc_lower, betrag) ==
    IF Contains(desc_lower, kw.wertpapierabrechnung) \/ Contains(desc_lower, kw.wertp)
    THEN IF Contains(description, kw.vv) \/ Contains(desc_lower, kw.verkauf)
         THEN "Wertpapierverkauf"
         ELSE IF Contains(description, kw.kv) \/ Contains(desc_lower, kw.kauf)
         THEN "Wertpapierkauf"
         ELSE "Wertpapierabrechnung"
    ELSE IF Contains(desc_lower, kw.durchlfd) /\ Contains(desc_lower, kw.sperrbetr)
    THEN "Wertpapier-Sperrbetraege"
    ELSE IF Contains(desc_lower, kw.ueberweisung) \/ Contains(desc_lower, kw.uebertrag)
    THEN IF DecLt(betrag, Zero) THEN "Ueberweisung ausgehend" ELSE "Ueberweisung eingehend"
    ELSE IF Contains(desc_lower, kw.gutschriftseingang) THEN "Gutschrift"
    ELSE IF Contains(desc_lower, kw.lastschr) THEN "Lastschrift"
    ELSE IF Contains(desc_lower, kw.depotentgelt) THEN "Depotentgelt"
    ELSE IF Contains(desc_lower, kw.entgeltabrechnung) THEN "Entgeltabrechnung"
    ELSE IF Contains(desc_lower, kw.abrechnung)
    THEN IF Contains(desc_lower, kw.verwahrentgelt) THEN "Verwahrentgelt" ELSE "Abrechnung"
    ELSE IF DecLt(Zero, betrag) THEN "Eingang"
    ELSE "Ausgang"

classify_transaction_type(description, betrag) ==
    ClassifyV7(description, lower(description), betrag)

\* Version 5, lines 52-73
ClassifyV5(desc_lower, betrag) ==
    IF Contains(desc_lower, kw.wertpapier) \/ Contains(desc_lower, kw.wertp)
    THEN IF DecLt(betrag, Zero) THEN "Wertpapierkauf" ELSE "Wertpapierverkauf"
    ELSE IF Contains(desc_lower, kw.ueberweisung) \/ Contains(desc_lower, kw.uebertrag)
    THEN IF DecLt(betrag, Zero) THEN "Ueberweisung ausgehend" ELSE "Ueberweisung eingehend"
    ELSE IF Contains(desc_lower, kw.gutschrift) THEN "Gutschrift"
    ELSE IF Contains(desc_lower, kw.lastschr) \/ Contains(desc_lower, kw.depotentgelt)
    THEN "Lastschrift"
    ELSE IF Contains(desc_lower, kw.entgelt) \/ Contains(desc_lower, kw.gebuehr)
    THEN "Gebuehren"
    ELSE IF Contains(desc_lower, kw.abrechnung)
    THEN IF Contains(desc_lower, kw.verwahrentgelt) THEN "Verwahrentgelt" ELSE "Abrechnung"
    ELSE IF Contains(desc_lower, kw.zins) THEN "Zinsen"
    ELSE IF DecLt(Zero, betrag) THEN "Eingang"
    ELSE "Ausgang"

classify_transaction_type_v5(description, betrag) == ClassifyV5(lower(description), betrag)

\* Version 4, lines 63-96
ClassifyV4(desc_lower, betrag) ==
    IF Contains(desc_lower, kw.wertpapier) \/ Contains(desc_lower, kw.depot)
       \/ Contains(desc_lower, kw.wertp)
    THEN IF DecLt(betrag, Zero) THEN "Wertpapierkauf" ELSE "Wertpapierverkauf"
    ELSE IF Contains(desc_lower, kw.ueberweisung) \/ Contains(desc_lower, kw.uebertrag)
    THEN IF DecLt(betrag, Zero) THEN "Ueberweisung ausgehend" ELSE "Ueberweisung eingehend"
    ELSE IF Contains(desc_lower, kw.gutschrift) THEN "Gutschrift"
    ELSE IF Contains(desc_lower, kw.lastschr) \/ Contains(desc_lower, kw.lastschrift)
    THEN "Lastschrift"
    ELSE IF Contains(desc_lower, kw.entgelt) \/ Contains(desc_lower, kw.gebuehr)
            \/ Contains(desc_lower, kw.kosten)
    THEN "Gebuehren"
    ELSE IF Contains(desc_lower, kw.abrechnung)
    THEN IF Contains(desc_lower, kw.verwahrentgelt) THEN "Verwahrentgelt" ELSE "Abrechnung"
    ELSE IF Contains(desc_lower, kw.zins) THEN "Zinsen"
    ELSE IF DecLt(Zero, betrag) THEN "Eingang"
    ELSE "Ausgang"

classify_transaction_type_v4(description, betrag) == ClassifyV4(lower(description), betrag)

(***************************************************************************)
(* Descriptions of up to MaxWords words, and the amounts of the examples.  *)
(***************************************************************************)
MaxWords == 2

Capitalised(word) == upper(SubSeq(word, 1, 1)) \o Tail(word)

Words ==
    {Capitalised(kw.wertpapierabrechnung), Capitalised(kw.wertp), upper(kw.kv), upper(kw.vv),
     kw.vv, Capitalised(kw.verkauf), Capitalised(kw.kauf), upper(kw.durchlfd),
     Capitalised(kw.sperrbetr), Capitalised(kw.ueberweisung), Capitalised(kw.uebertrag),
     Capitalised(kw.gutschriftseingang), Capitalised(kw.gutschrift),
     Capitalised(kw.lastschrift), Capitalised(kw.depotentgelt), Capitalised(kw.depot),
     Capitalised(kw.entgeltabrechnung), Capitalised(kw.abrechnung),
     Capitalised(kw.verwahrentgelt), upper(kw.verwahrentgelt), Capitalised(kw.gebuehr),
     Capitalised(kw.kosten), Capitalised(kw.zins), <<"M", "i", "e", "t", "e">>}

RECURSIVE Joined(_)
Joined(words) ==
    IF Len(words) = 1 THEN words[1]
    ELSE words[1] \o <<" ">> \o Joined(Tail(words))

Descriptions == {Joined(w) : w \in UNION {[1..n -> Words] : n \in 1..MaxWords}}

ClassifyAmounts == {DecNorm(-10104600, 2), DecNorm(-195, 2), Zero, DecNorm(6870016, 2)}

InitClassify ==
    /\ inp \in [description : Descriptions, betrag : ClassifyAmounts]
    /\ out = NoResult

ClassifyVersion7 ==
    /\ out = NoResult
    /\ out' = [op |-> "classify_v7", r |-> classify_transaction_type(inp.description, inp.betrag)]
    /\ UNCHANGED inp

ClassifyVersion5 ==
    /\ out = NoResult
    /\ out' = [op |-> "classify_v5",
               r |-> classify_transaction_type_v5(inp.description, inp.betrag)]
    /\ UNCHANGED inp

ClassifyVersion4 ==
    /\ out = NoResult
    /\ out' = [op |-> "classify_v4",
               r |-> classify_transaction_type_v4(inp.description, inp.betrag)]
    /\ UNCHANGED inp

NextClassify == ClassifyVersion7 \/ ClassifyVersion5 \/ ClassifyVersion4

SpecClassify == InitClassify /\ [][NextClassify]_vars

Classified == out.op \in {"classify_v7", "classify_v5", "classify_v4"}

\* C18 (as claimed): a description that contains 'Verwahrentgelt', in any
\* case, is classified Verwahrentgelt, whatever the amount and whatever else
\* the description holds.
C18_CustodyFee ==
    (Classified /\ Contains(lower(inp.description), kw.verwahrentgelt)) =>
        out.r = "Verwahrentgelt"

\* An explicit marker of a sale: VV or Verkauf, in any case
SellMarker(description) ==
    Contains(lower(description), kw.vv) \/ Contains(lower(description), kw.verkauf)

\* C19 (as claimed): a description that contains 'Wertpapierabrechnung', with
\* a negative amount and no marker of a sale, is classified Wertpapierkauf.
C19_PurchaseBySign ==
    (/\ out.op \in {"classify_v7", "classify_v4"}
     /\ Contains(lower(inp.description), kw.wertpapierabrechnung)
     /\ DecLt(inp.betrag, Zero)
     /\ ~SellMarker(inp.description)) =>
        out.r = "Wertpapierkauf"

\* The thirteen categories of the enumeration, by the labels of the code; the
\* fee category takes every label that names a fee.
Categories ==
    [SecurityPurchase |-> {"Wertpapierkauf"},
     SecuritySale |-> {"Wertpapierverkauf"},
     SecurityStatement |-> {"Wertpapierabrechnung"},
     TransferOutgoing |-> {"Ueberweisung ausgehend"},
     TransferIncoming |-> {"Ueberweisung eingehend"},
     Credit |-> {"Gutschrift"},
     DirectDebit |-> {"Lastschrift"},
     Fee |-> {"Gebuehren", "Depotentgelt", "Entgeltabrechnung"},
     CustodyFee |-> {"Verwahrentgelt"},
     Settlement |-> {"Abrechnung"},
     Interest |-> {"Zinsen"},
     GenericInflow |-> {"Eingang"},
     GenericOutflow |-> {"Ausgang"}]

\* C20 (as claimed): for every description and every amount, negative, zero
\* or positive, the label returned belongs to one of the thirteen categories.
C20_ClosedEnumeration ==
    (out.op \in {"classify_v7", "classify_v4"}) =>
        \E c \in DOMAIN Categories : out.r \in Categories[c]

\* The labels the return statements of each version name
LabelsV7 ==
    {"Wertpapierverkauf", "Wertpapierkauf", "Wertpapierabrechnung", "Wertpapier-Sperrbetraege",
     "Ueberweisung ausgehend", "Ueberweisung eingehend", "Gutschrift", "Lastschrift",
     "Depotentgelt", "Entgeltabrechnung", "Verwahrentgelt", "Abrechnung", "Eingang", "Ausgang"}

LabelsV5 ==
    {"Wertpapierkauf", "Wertpapierverkauf", "Ueberweisung ausgehend", "Ueberweisung eingehend",
     "Gutschrift", "Lastschrift", "Gebuehren", "Verwahrentgelt", "Abrechnung", "Zinsen",
     "Eingang", "Ausgang"}

\* The labels returned for some description and amount
ReturnedV7 ==
    {classify_transaction_type(d, b) : d \in Descriptions, b \in ClassifyAmounts}

ReturnedV5 ==
    {classify_transaction_type_v5(d, b) : d \in Descriptions, b \in ClassifyAmounts}

SecurityKeywords(desc_lower) ==
    Contains(desc_lower, kw.wertpapierabrechnung) \/ Contains(desc_lower, kw.wertp)

\* Version 7 alone has the rule of the blocked amounts, after the security rule
BlockedKeywords(desc_lower) ==
    Contains(desc_lower, kw.durchlfd) /\ Contains(desc_lower, kw.sperrbetr)

TransferKeywords(desc_lower) ==
    Contains(desc_lower, kw.ueberweisung) \/ Contains(desc_lower, kw.uebertrag)

NoteKeywords(desc_lower) ==
    Contains(desc_lower, kw.gutschriftseingang) \/ Contains(desc_lower, kw.lastschr)

AnyKeyword(desc_lower) == \E k \in DOMAIN kw : Contains(desc_lower, kw[k])

\* The first rule that matches decides, in versions 7 and 5: security before
\* transfer before credit and debit notes, and the sign only when no keyword
\* is there.
FirstRuleWins ==
    (out.op \in {"classify_v7", "classify_v5"}) =>
        LET d == lower(inp.description)
            blocked == out.op = "classify_v7" /\ BlockedKeywords(d)
        IN  /\ SecurityKeywords(d) =>
                  out.r \in {"Wertpapierverkauf", "Wertpapierkauf", "Wertpapierabrechnung"}
            /\ (~SecurityKeywords(d) /\ blocked) => out.r = "Wertpapier-Sperrbetraege"
            /\ (~SecurityKeywords(d) /\ ~blocked /\ TransferKeywords(d))
                  => out.r \in {"Ueberweisung ausgehend", "Ueberweisung eingehend"}
            /\ (~SecurityKeywords(d) /\ ~blocked /\ ~TransferKeywords(d) /\ NoteKeywords(d))
                  => out.r \in {"Gutschrift", "Lastschrift"}
            /\ ~AnyKeyword(d) => out.r \in {"Eingang", "Ausgang"}

\* C21 (as claimed): the rules are tried in their order and the first that
\* matches decides, and every label a rule of version 7 or 5 names is
\* returned for some description.
C21_PriorityOrder ==
    /\ FirstRuleWins
    /\ ReturnedV7 = LabelsV7
    /\ ReturnedV5 = LabelsV5

\* C22 (as claimed): version 7 returns the same category for a description,
\* for the description in upper case and for the description in lower case,
\* the markers of purchase and sale included.
C22_CaseInsensitive ==
    (out.op = "classify_v7") =>
        /\ out.r = classify_transaction_type(upper(inp.description), inp.betrag)
        /\ out.r = classify_transaction_type(lower(inp.description), inp.betrag)

\* The direction a label names, "none" for a label without a direction
Direction(label) ==
    IF label \in {"Ueberweisung ausgehend", "Ausgang"} THEN "outgoing"
    ELSE IF label \in {"Ueberweisung eingehend", "Eingang"} THEN "incoming"
    ELSE "none"

\* C27 (as claimed): in version 7 a negative amount gives the outgoing
\* direction and a positive one the incoming direction in every rule that
\* names a direction, and an amount of zero gets under the transfer rule the
\* direction the sign rule gives it (the rule that decides a description
\* without any keyword).
C27_DirectionBySign ==
    (out.op = "classify_v7" /\ Direction(out.r) # "none") =>
        /\ DecLt(inp.betrag, Zero) => Direction(out.r) = "outgoing"
        /\ DecLt(Zero, inp.betrag) => Direction(out.r) = "incoming"
        /\ Direction(out.r) = Direction(classify_transaction_type(<<>>, inp.betrag))

\* C29: in version 7 (and version 6, the same text) a description that
\* contains 'verkauf', in any case, is never classified Wertpapierkauf,
\* whatever the amount.
C29_SaleBeforePurchase ==
    (out.op = "classify_v7" /\ Contains(lower(inp.description), kw.verkauf)) =>
        out.r # "Wertpapierkauf"

\* A security line with 'Verkauf' and a negative amount, classified as a sale
C29_Witness ==
    /\ out.op = "classify_v7"
    /\ Contains(lower(inp.description), kw.verkauf)
    /\ SecurityKeywords(lower(inp.description))
    /\ DecLt(inp.betrag, Zero)
    /\ out.r = "Wertpapierverkauf"

\* C28 (as claimed): a run of version 8 that went through all its documents
\* with fewer than two analyses accumulated ends without an exception: the
\* report is written once, with no continuity result, and the summary after
\* it does not raise.
C28_FewResultsComplete ==
    (out.op = "main" /\ out.pc \in {"summary", "done", "crashed"}
        /\ Len(out.alle_analysen) < 2) =>
        /\ out.pc # "crashed"
        /\ out.written = 1
        /\ out.ergebnis.kontinuitaet = None

\* C24 (as claimed): every run of version 8 that reached the loop over the
\* documents eventually has written the report, after the last document, with
\* the results and the counts of the run, and never writes it twice.
C24_ReportWritten ==
    /\ AtMain("loop") ~>
          /\ out.written = 1
          /\ out.idx = Len(inp.answers)
          /\ out.ergebnis = Ergebnis(out, out.ergebnis.kontinuitaet)
    /\ [](out.op = "main" => out.written <= 1)

\* C23 (as claimed): for a draft that is no statement (a balance absent or a
\* bare number, the entries absent, an entry that is no mapping) the
\* reconciliation of version 8 returns a regular result, with the balances
\* and the difference, in which an absent opening balance is 0 and the sum
\* of absent entries is 0.
C23_MalformedRegular ==
    (out.op = "analyse_v8" /\ inp.style = "malformed" /\ out.r.k = "ok") =>
        /\ HasBalances(out.r.v)
        /\ "anfangssaldo" \notin DOMAIN ParsedResult(inp.result).f
              => python_validierung.anfangssaldo = PyFloat(Zero)
        /\ "transaktionen" \notin DOMAIN ParsedResult(inp.result).f
              => python_validierung.transaktionen_summe = PyFloat(Zero)

\* The check pairs the statements numbered k and k + 1.
Consecutive(check) ==
    IntOf(check.auszug_nach).v = IntOf(check.auszug_von).v + 1

\* Both statements of the check carry a number.
Numbered(check) ==
    /\ IntOf(check.auszug_von).k = "ok"
    /\ IntOf(check.auszug_nach).k = "ok"

\* C26 (as claimed): in the report of version 8 every continuity check
\* between two numbered statements pairs the numbers k and k + 1, also when
\* the document of a statement in between failed; so the checks are in
\* increasing order of the numbers.
C26_ConsecutivePairs ==
    (out.op = "main" /\ out.written > 0 /\ out.ergebnis.kontinuitaet # None) =>
        \A i \in DOMAIN out.ergebnis.kontinuitaet.kontinuitaet_pruefungen :
            Numbered(out.ergebnis.kontinuitaet.kontinuitaet_pruefungen[i]) =>
                Consecutive(out.ergebnis.kontinuitaet.kontinuitaet_pruefungen[i])


(***************************************************************************)
(* docling_processor: DoclingProcessor.validate_file, convert_document and *)
(* export_as_markdown.  inp is the path given, what the file system holds  *)
(* at it and whether the converter raises; out is what the call returned   *)
(* or raised and how often self.converter.convert was invoked.             *)
(***************************************************************************)
\* Lines 59-73: the keys of SUPPORTED_FORMATS
SUPPORTED_FORMATS ==
    {<<".", "p", "d", "f">>, <<".", "d", "o", "c", "x">>, <<".", "x", "l", "s", "x">>,
     <<".", "p", "p", "t", "x">>, <<".", "h", "t", "m", "l">>, <<".", "h", "t", "m">>,
     <<".", "m", "d">>, <<".", "x", "m", "l">>, <<".", "p", "n", "g">>, <<".", "j", "p", "g">>,
     <<".", "j", "p", "e", "g">>, <<".", "t", "i", "f", "f">>, <<".", "t", "i", "f">>}

\* name.rfind('.'), counted from 1; 0 if there is none
rfind(name) ==
    IF \E i \in DOMAIN name : name[i] = "."
    THEN CHOOSE i \in DOMAIN name : name[i] = "." /\ \A j \in (i + 1)..Len(name) : name[j] # "."
    ELSE 0

\* PurePath.suffix for a path of one component: from the last dot on, unless
\* the dot is the first or the last character
suffix(name) ==
    IF 1 < rfind(name) /\ rfind(name) < Len(name)
    THEN SubSeq(name, rfind(name), Len(name))
    ELSE <<>>

\* validate_file without the test of the suffix
validate_file_AnySuffix(file_path, kind) ==
    IF kind = "missing" THEN Raise("ValueError")
    ELSE IF kind # "file" THEN Raise("ValueError")
    ELSE [k |-> "ok", v |-> file_path]

\* Lines 132-159; kind is what the file system holds at the path
validate_file(file_path, kind) ==
    IF kind = "missing" THEN Raise("ValueError")             \* not path.exists()
    ELSE IF kind # "file" THEN Raise("ValueError")           \* not path.is_file()
    ELSE IF lower(suffix(file_path)) \notin SUPPORTED_FORMATS THEN Raise("ValueError")
    ELSE [k |-> "ok", v |-> file_path]

\* Lines 161-206 and 208-236: the path is validated outside the try; what
\* the converter raises is logged and raised again.
Converted(method, path, converter_raises) ==
    IF path.k = "raise" THEN [op |-> method, r |-> path, converter_calls |-> 0]
    ELSE IF converter_raises
    THEN [op |-> method, r |-> Raise("Exception"), converter_calls |-> 1]
    ELSE [op |-> method,
          r |-> [k |-> "ok", v |-> [source_file |-> path.v,
                                     file_type |-> lower(suffix(path.v))]],
          converter_calls |-> 1]

FileNames ==
    {<<"a", ".", "p", "d", "f">>, <<"a", ".", "P", "D", "F">>, <<"a", ".", "x", "y", "z">>,
     <<"a">>, <<".", "p", "d", "f">>, <<"a", ".", "p", "d", "f", ".">>,
     <<"a", ".", "b", ".", "m", "d">>, <<"p", "d", "f">>, <<"a", ".", "t", "x", "t">>}

FileKinds == {"missing", "directory", "file"}

InitConvert ==
    /\ inp \in [file_path : FileNames, kind : FileKinds, converter_raises : BOOLEAN]
    /\ out = NoResult

ConvertDocument ==
    /\ out = NoResult
    /\ out' = Converted("convert_document", validate_file(inp.file_path, inp.kind),
                        inp.converter_raises)
    /\ UNCHANGED inp

ExportAsMarkdown ==
    /\ out = NoResult
    /\ out' = Converted("export_as_markdown", validate_file(inp.file_path, inp.kind),
                        inp.converter_raises)
    /\ UNCHANGED inp

NextConvert == ConvertDocument \/ ExportAsMarkdown

SpecConvert == InitConvert /\ [][NextConvert]_vars

\* The suffixes of the file names, as written
Suffixes == [n \in FileNames |-> suffix(n)]

\* C25: convert_document and export_as_markdown raise ValueError, without
\* invoking the converter, for a path that does not exist, that is no regular
\* file, or whose suffix is not one of the supported formats; they invoke the
\* converter for every other path.
C25_InvalidRejected ==
    (out.op \in {"convert_document", "export_as_markdown"}) =>
        IF \/ inp.kind = "missing"
           \/ inp.kind = "directory"
           \/ lower(Suffixes[inp.file_path]) \notin SUPPORTED_FORMATS
        THEN out.r = Raise("ValueError") /\ out.converter_calls = 0
        ELSE out.converter_calls = 1

\* A regular file with the suffix .xyz, rejected before any conversion
C25_Witness ==
    /\ out.op = "convert_document"
    /\ inp.kind = "file"
    /\ Suffixes[inp.file_path] = <<".", "x", "y", "z">>
    /\ out.r = Raise("ValueError")
    /\ out.converter_calls = 0


(***************************************************************************)
(* The functions around client.chat: ask_llm_v6_analysis,                  *)
(* DoclingProcessor.ask_question and ask_llm_question of                   *)
(* simple_pdf_processor.  inp is what the call gives: an exception, a      *)
(* response that is empty or has no 'message', or a message with its       *)
(* content; out.r is what the function returns.                            *)
(***************************************************************************)
\* What json.loads makes of the content of a message
Contents ==
    {Unparseable, EmptyDict, JList(<<>>), JNum(Cent), JStr(<<"x">>), JNull, JBool(TRUE)}
    \cup (BatchAnswersV6(1) \ {CallError})

Responses ==
    {CallError, [t |-> "no_response"], [t |-> "no_message"]}
    \cup {[t |-> "message", content |-> c] : c \in Contents}

\* "if response and 'message' in response"
HasMessage(response) == response.t = "message"

\* A dict returned, another value returned, and the return of None at the
\* end of a function body
Mapping(v) == [k |-> "mapping", v |-> v]
Value(v) == [k |-> "value", v |-> v]
ReturnsNone == [k |-> "none"]

\* return json.loads(...); the content "null" loads as None
Loaded(content) ==
    IF content.t = "dict" THEN Mapping(content)
    ELSE IF content = JNull THEN ReturnsNone
    ELSE Value(content)

\* analyze_kontoauszuege_v6, lines 242-345: there is no statement after the
\* "if response and 'message' in response" of line 278 and none after the
\* try, so without a message the function ends and returns None.
AskV6(json_file, response) ==
    IF response = CallError THEN Mapping(ask_llm_v6_analysis(json_file, CallError))
    ELSE IF ~HasMessage(response) THEN ReturnsNone
    ELSE Mapping(ask_llm_v6_analysis(json_file, response.content))

\* docling_processor, lines 238-323
ask_question(ollama_imported, response) ==
    IF ~ollama_imported THEN Mapping("error")                       \* lines 251-255
    ELSE IF response = CallError THEN Mapping("error")               \* lines 317-323
    ELSE IF ~HasMessage(response) THEN ReturnsNone                   \* line 302, no else
    ELSE IF response.content = Unparseable THEN Mapping("antwort")   \* lines 308-315
    ELSE Loaded(response.content)                                    \* line 307

\* simple_pdf_processor, lines 82-126
ask_llm_question(response) ==
    IF response = CallError THEN Mapping("error")                    \* lines 122-124
    ELSE IF ~HasMessage(response) THEN Mapping("error")              \* line 126
    ELSE IF response.content = Unparseable THEN Mapping("antwort")   \* lines 119-120
    ELSE Loaded(response.content)                                    \* line 118

InitAsk ==
    /\ inp \in [response : Responses, ollama_imported : BOOLEAN]
    /\ out = NoResult

AskLlmV6 ==
    /\ out = NoResult
    /\ out' = [op |-> "ask_llm_v6_analysis", r |-> AskV6("Konto_Auszug", inp.response)]
    /\ UNCHANGED inp

AskQuestion ==
    /\ out = NoResult
    /\ out' = [op |-> "ask_question", r |-> ask_question(inp.ollama_imported, inp.response)]
    /\ UNCHANGED inp

AskLlmQuestion ==
    /\ out = NoResult
    /\ out' = [op |-> "ask_llm_question", r |-> ask_llm_question(inp.response)]
    /\ UNCHANGED inp

NextAsk == AskLlmV6 \/ AskQuestion \/ AskLlmQuestion

SpecAsk == InitAsk /\ [][NextAsk]_vars

\* C30 (as claimed): whatever the call gives (an exception, a response that
\* is empty or has no 'message', content that is no JSON, content that is
\* JSON), each of the three functions returns a mapping.
C30_AlwaysMapping ==
    (out.op \in {"ask_llm_v6_analysis", "ask_question", "ask_llm_question"}) =>
        out.r.k = "mapping"

====
